---- MODULE Spec2Model ----
(***************************************************************************)
(* State-machine model of the asynchronous orchestration layer:            *)
(*   - processInBatches            (src/utils/asyncUtils.ts)               *)
(*   - getStructuredAnalysisFromContent, performComprehensiveAnalysis      *)
(*                                 (src/services/siliconflowService.ts)    *)
(*   - getEffectiveParameters, chatWithPersona and the handlers of         *)
(*     ConversationObserver, PersonaChatInterface, PersonaExtraction       *)
(*                                 (src/unnamed/part_000)                  *)
(* One JavaScript event loop: a settling request is a macro-task, the      *)
(* continuations of awaits are micro-tasks that run before the next        *)
(* macro-task (guard ~Busy on every settle action).                        *)
(***************************************************************************)
EXTENDS Integers, Sequences, FiniteSets, TLC

\* ------------------------------------------------------------------ bounds
MaxItems == 5
MaxBatch == 3
MaxKeywords == 2
MaxSegments == 4
MaxLimit == 2

\* ------------------------------------------------------------ input pools
ItemPool == <<"a", "b", "a", "c", "b", "a", "c", "c">>
OutPool == {[out |-> "u"], [out |-> "v"]}
KeywordPool == <<"X", "Y", "Z", "W">>
ConceptLists == {<<>>, <<"c1">>, <<"c1", "c2">>}
FailureKinds == {"network", "http", "malformed"}

None == "none"
\* The signal of a fetch whose init object names none
NoSignal == [defined |-> FALSE]
\* What a request has received: nothing yet, or a parsed 2xx JSON body
NotReceived == [received |-> FALSE]
\* The value of a call of a processor that has not settled
NoValue == [settled |-> FALSE]
Received(body) == [received |-> TRUE, json |-> body]

VARIABLES
  pc,                 \* position of the pipeline entry point
  items,              \* processInBatches: parameter items
  batchSize,          \* processInBatches: parameter batchSize
  hasOnBatchStart,    \* processInBatches: whether onBatchStart was passed
  caller,             \* which processor the current run was given
  i,                  \* processInBatches: loop variable
  results,            \* processInBatches: local results
  bpc,                \* processInBatches: position
  promise,            \* processInBatches: the returned promise's state
  chunkDone,          \* indices of the current chunk, in completion order
  reqs,               \* every processor call / request issued, in issue order
  trace,              \* onBatchStart calls and processor starts, in order
  keywords,           \* performComprehensiveAnalysis: parameter keywords
  concurrencyLimit,   \* pipelines: parameter concurrencyLimit
  preliminarySummary, \* performComprehensiveAnalysis: local
  analysisResults,    \* performComprehensiveAnalysis: local
  allMainConcepts,    \* performComprehensiveAnalysis: local
  code,               \* getStructuredAnalysisFromContent: philosophyItem.code
  ret,                \* the pipeline's returned promise
  philosophyCode,     \* chatWithPersona: parameter philosophyCode
  parameterConfig,    \* chatWithPersona: parameter parameterConfig
  params,             \* what getEffectiveParameters returned
  ctls,               \* the AbortControllers created so far: their aborted flag
  conversationController, \* PersonaExtraction: the ref's current (0 is null)
  generationController,   \* PersonaExtraction: the ref's current (0 is null)
  isConversing,       \* PersonaExtraction: state
  mode,               \* PersonaExtraction: state
  activeChat,         \* PersonaChatInterface: state
  history,            \* PersonaChatInterface: historyA and historyB
  messages,           \* ConversationObserver: state
  errors,             \* the error shown by each component
  isLoading,          \* PersonaExtraction: isLoadingA and isLoadingB
  personaPrompt,      \* PersonaExtraction: personaPromptA and personaPromptB
  ops,                \* every handler invocation, with its locals
  fetches,            \* every fetch issued by the persona services, in order
  response,           \* handleApiError: parameter response
  apiError,           \* handleApiError: what the call came to
  activeTopLevelTab,  \* App: state
  apiKey,             \* App: state
  fileResults,        \* App: state results
  activeResult,       \* App: state
  files,              \* ReportDisplay: state
  isProcessing,       \* ReportDisplay: state
  run,                \* startProcessing: the invocation in flight, with its locals
  runs,               \* number of startProcessing invocations so far
  completions,        \* the onProcessingComplete calls of the latest startProcessing
  analysisCalls,      \* its getStructuredAnalysisFromContent calls
  title,              \* ComprehensiveAnalysis: state
  textContent,        \* ComprehensiveAnalysis: state
  selectedKeywords,   \* ComprehensiveAnalysis: state
  compLoading,        \* ComprehensiveAnalysis: state isLoading
  compError,          \* ComprehensiveAnalysis: state error
  compCalls           \* every performComprehensiveAnalysis call of handleStartAnalysis

vars == <<pc, items, batchSize, hasOnBatchStart, caller, i, results, bpc,
          promise, chunkDone, reqs, trace, keywords, concurrencyLimit,
          preliminarySummary, analysisResults, allMainConcepts, code, ret,
          philosophyCode, parameterConfig, params, ctls, conversationController,
          generationController, isConversing, mode, activeChat, history, messages,
          errors, isLoading, personaPrompt, ops, fetches,
          response, apiError, activeTopLevelTab, apiKey, fileResults,
          activeResult, files, isProcessing, run, runs, completions, analysisCalls,
          title, textContent, selectedKeywords, compLoading, compError, compCalls>>

batchVars == <<items, batchSize, hasOnBatchStart, caller, i, results, bpc,
               promise, chunkDone>>
compVars == <<keywords, preliminarySummary, analysisResults, allMainConcepts>>
pipelineVars == <<pc, batchVars, compVars, reqs, trace, concurrencyLimit, code, ret>>
apiVars == <<response, apiError>>
reportVars == <<fileResults, activeResult, files, isProcessing, run, runs, completions,
                analysisCalls>>
comprehensiveVars == <<title, textContent, selectedKeywords, compLoading, compError,
                       compCalls>>
appVars == <<apiVars, activeTopLevelTab, apiKey, reportVars, comprehensiveVars>>
personaVars == <<philosophyCode, parameterConfig, params, ctls, conversationController,
                 generationController, isConversing, mode, activeChat, history,
                 messages, errors, isLoading, personaPrompt, ops, fetches>>

\* ----------------------------------------------------------------- helpers
Min(a, b) == IF a < b THEN a ELSE b

\* Array.prototype.slice(from, to) on a 0-based array held as a 1-based sequence
Slice(s, from, to) == SubSeq(s, from + 1, Min(to, Len(s)))

\* Math.ceil(n / b) for n >= 0, b >= 1
CeilDiv(n, b) == IF n % b = 0 THEN n \div b ELSE (n \div b) + 1

Pending == [kind |-> "pending"]
Resolved(v) == [kind |-> "resolved", value |-> v]
Rejected(e) == [kind |-> "rejected", error |-> e]

\* obj[k] = v on a JavaScript object held as a function
Assign(f, k, v) == [x \in (DOMAIN f) \cup {k} |-> IF x = k THEN v ELSE f[x]]
EmptyObject == [x \in {} |-> None]

\* A string argument that may be absent (undefined)
Str(chars) == [defined |-> TRUE, str |-> chars]
Undefined == [defined |-> FALSE, str |-> <<>>]

\* getEffectiveParameters has not been called
NotCalled == [called |-> FALSE]

Personas == {"A", "B"}
\* useState('') of personaPromptA, personaPromptB
NoPrompt == [text |-> "", structured |-> FALSE]
ErrorSlots == {"observer", "chat", "A", "B"}
\* useState('') of error, errorA, errorB
NoError == [shown |-> "none"]

\* The persona components as mounted: the initial value of every useState/useRef
ComponentsMounted ==
  /\ ctls = <<>>
  /\ conversationController = 0
  /\ generationController = 0
  /\ isConversing = FALSE
  /\ mode = "observer"
  /\ activeChat = "A"
  /\ history = [p \in Personas |-> <<>>]
  /\ messages = <<>>
  /\ errors = [e \in ErrorSlots |-> NoError]
  /\ isLoading = [p \in Personas |-> FALSE]
  /\ personaPrompt = [p \in Personas |-> NoPrompt]
  /\ ops = <<>>
  /\ fetches = <<>>

\* The persona side is not used by the analysis pipelines
PersonaIdle ==
  /\ philosophyCode = Undefined
  /\ parameterConfig = EmptyObject
  /\ params = NotCalled
  /\ ComponentsMounted

\* No response is being handled
NoResponse == [status |-> "none"]
ApiIdle ==
  /\ response = NoResponse
  /\ apiError = NotCalled

\* No startProcessing invocation is in flight
NoRun == [active |-> FALSE]

\* ReportDisplay and ComprehensiveAnalysis as they are mounted (useState)
ReportMounted ==
  /\ files = <<>>
  /\ isProcessing = FALSE
ComprehensiveMounted ==
  /\ title = <<>>
  /\ textContent = <<>>
  /\ selectedKeywords = {}
  /\ compLoading = FALSE
  /\ compError = None

\* App as it is mounted, with no invocation of its handlers
AppAtRest ==
  /\ fileResults = <<>>
  /\ activeResult = [selected |-> FALSE]
  /\ ReportMounted
  /\ run = NoRun
  /\ runs = 0
  /\ completions = <<>>
  /\ analysisCalls = <<>>
  /\ ComprehensiveMounted
  /\ compCalls = <<>>

AppMounted ==
  /\ activeTopLevelTab = "philosophy"
  /\ apiKey = ""
  /\ AppAtRest

\* The components of App are not used
AppIdle ==
  /\ ApiIdle
  /\ AppMounted

\* The analysis pipelines are not used by the persona side
PipelineAtRest ==
  /\ pc = "idle"
  /\ items = <<>>
  /\ batchSize = 1
  /\ hasOnBatchStart = FALSE
  /\ caller = None
  /\ i = 0
  /\ results = <<>>
  /\ bpc = "idle"
  /\ promise = Pending
  /\ chunkDone = <<>>
  /\ reqs = <<>>
  /\ trace = <<>>
  /\ keywords = <<>>
  /\ preliminarySummary = None
  /\ analysisResults = EmptyObject
  /\ allMainConcepts = <<>>
  /\ code = <<>>
  /\ ret = Pending

PipelineIdle ==
  /\ PipelineAtRest
  /\ concurrencyLimit = 1

\* --------------------------------------------------------- the processors
\* A parsed 2xx JSON body: with a concepts array, or without the field
NoConceptsBody == [note |-> "x"]
ConceptBodies == {[concepts |-> cs] : cs \in ConceptLists}
\* A Round-2 body: one secondary concept whose parent is the primary concept asked about
SecondaryBody(item) == [concepts |-> <<[id |-> "sub", parent |-> item.concept]>>]

\* What a successful call of each processor can receive
Responses(round, item) ==
  CASE round = "run" -> OutPool
    [] round = "round1" -> {NoConceptsBody} \cup ConceptBodies
    [] round = "round2" -> {NoConceptsBody, SecondaryBody(item)}
    [] round = "domains" -> {NoConceptsBody} \cup ConceptBodies
    [] OTHER -> {}

\* JSON.parse(...).concepts || []
ConceptsOf(body) == IF "concepts" \in DOMAIN body THEN body.concepts ELSE <<>>

DOMAIN_DEFINITIONS ==
  << [name |-> "fieldTheory", key |-> "fieldTheoryAnalysis"],
     [name |-> "ontology", key |-> "ontologyAnalysis"],
     [name |-> "epistemology", key |-> "epistemologyAnalysis"],
     [name |-> "teleology", key |-> "teleologyAnalysis"] >>

\* The user prompt a processor renders for its item (the substituted fields)
RenderPrompt(round, item, summary, itemCode) ==
  CASE round = "run" -> None
    [] round = "round1" -> [keyword |-> item, documentSummary |-> summary]
    [] round = "round2" -> [keyword |-> item.keyword, mainConcept |-> item.concept,
                            documentSummary |-> summary]
    [] round = "domains" -> [domainName |-> item.name, domainKey |-> item.key,
                             philosophyCode |-> itemCode]

\* The value a processor call resolves with, given what its request received
ProcessorValue(round, item, body) ==
  CASE round = "run" -> body
    [] round = "round1" -> [keyword |-> item, data |-> ConceptsOf(body)]
    [] round = "round2" -> [keyword |-> item.keyword, data |-> ConceptsOf(body)]
    [] round = "domains" -> [domainKey |-> item.key, concepts |-> ConceptsOf(body)]

\* Variant: the .catch wrapper rethrows the cause without naming the item
ProcessorErrorUnnamed(round, item, kind) ==
  [stage |-> round, name |-> None, cause |-> kind]

\* The error a processor call rejects with (the .catch wrapper of each processor)
ProcessorError(round, item, kind) ==
  CASE round = "run" -> [stage |-> "run", name |-> item, cause |-> kind]
    [] round = "round1" -> [stage |-> "round1", name |-> item, cause |-> kind]
    [] round = "round2" -> [stage |-> "round2", name |-> item.concept, cause |-> kind]
    [] round = "domains" -> [stage |-> "domains", name |-> item.name, cause |-> kind]

\* One processor invocation: processor(item, index), its request now in flight
StartCall(round, item, index) ==
  [round |-> round, index |-> index, item |-> item,
   prompt |-> RenderPrompt(round, item, preliminarySummary, code),
   signal |-> NoSignal, body |-> NotReceived,
   status |-> "pending", value |-> NoValue]

\* ----------------------------------------------------- processInBatches
\* Variant: the total rounded down
totalBatchesFloor == Len(items) \div batchSize

totalBatches == CeilDiv(Len(items), batchSize)
batchIndex == (i \div batchSize) + 1
batchItems == Slice(items, i, i + batchSize)

\* Position in reqs of the current run's call for original index idx
ReqAt(idx) == CHOOSE k \in DOMAIN reqs : reqs[k].round = caller /\ reqs[k].index = idx

\* Original indices of the chunk being awaited
ChunkIndices == {idx \in i..(i + batchSize - 1) : idx < Len(items)}

InChunk(k) == reqs[k].round = caller /\ reqs[k].index \in ChunkIndices

\* Variant: the chunk's values in the order the calls completed
BatchResultsByCompletion ==
  [k \in 1..Len(chunkDone) |-> reqs[ReqAt(chunkDone[k])].value]

\* await Promise.all(batchPromises): values in the order the promises were created
BatchResults == [k \in 1..Len(batchItems) |-> reqs[ReqAt(i + k - 1)].value]

\* Variant: the wait ends with the first fulfilled promise of the chunk
ChunkAnyFulfilled(rq) == \E idx \in ChunkIndices :
  \E k \in DOMAIN rq : rq[k].round = caller /\ rq[k].index = idx /\ rq[k].status = "resolved"

\* Promise.all is fulfilled once every promise of the chunk is fulfilled
ChunkFulfilled(rq) == \A idx \in ChunkIndices :
  \E k \in DOMAIN rq : rq[k].round = caller /\ rq[k].index = idx /\ rq[k].status = "resolved"

\* Micro-tasks pending: they run before the next request settles
Busy ==
  \/ bpc \in {"loop", "resume"}
  \/ bpc \in {"resolved", "rejected"} /\ pc \in {"round1", "round2", "domains"}

\* Entering processInBatches (lines 15-16)
processInBatches(its, size, who) ==
  /\ items' = its
  /\ batchSize' = size
  /\ hasOnBatchStart' = TRUE
  /\ caller' = who
  /\ i' = 0
  /\ results' = <<>>
  /\ bpc' = "loop"
  /\ promise' = Pending
  /\ chunkDone' = <<>>

BatchEvent == [ev |-> "batch", round |-> caller, batchIndex |-> batchIndex,
               totalBatches |-> totalBatches]
CallEvent(idx) == [ev |-> "call", round |-> caller, index |-> idx]

\* The for loop's test, onBatchStart and the start of one chunk; or the return
LoopStep ==
  /\ bpc = "loop"
  /\ IF i < Len(items)
     THEN /\ trace' = trace \o (IF hasOnBatchStart THEN <<BatchEvent>> ELSE <<>>)
                            \o [k \in 1..Len(batchItems) |-> CallEvent(i + k - 1)]
          /\ reqs' = reqs \o [k \in 1..Len(batchItems) |->
                                StartCall(caller, batchItems[k], i + k - 1)]
          /\ bpc' = "await"
          /\ chunkDone' = <<>>
          /\ UNCHANGED promise
     ELSE /\ bpc' = "resolved"
          /\ promise' = Resolved(results)
          /\ UNCHANGED <<trace, reqs, chunkDone>>
  /\ UNCHANGED <<pc, items, batchSize, hasOnBatchStart, caller, i, results,
                 concurrencyLimit, code, personaVars, appVars, ret>>
  /\ UNCHANGED compVars

\* Variant: a body without the concepts field makes the call fail
ProcResolveStrict(k, body) ==
  /\ ~Busy
  /\ k \in DOMAIN reqs
  /\ reqs[k].round # "round0"
  /\ reqs[k].status = "pending"
  /\ body \in Responses(reqs[k].round, reqs[k].item)
  /\ LET ok == "concepts" \in DOMAIN body
         error == ProcessorError(reqs[k].round, reqs[k].item, "malformed")
     IN /\ reqs' = [reqs EXCEPT
                      ![k].status = IF ok THEN "resolved" ELSE "rejected",
                      ![k].body = Received(body),
                      ![k].value = IF ok
                                   THEN ProcessorValue(reqs[k].round, reqs[k].item, body)
                                   ELSE error]
        /\ IF bpc = "await" /\ InChunk(k)
           THEN IF ok
                THEN /\ chunkDone' = Append(chunkDone, reqs[k].index)
                     /\ bpc' = IF ChunkFulfilled(reqs') THEN "resume" ELSE "await"
                     /\ UNCHANGED promise
                ELSE /\ bpc' = "rejected"
                     /\ promise' = Rejected(error)
                     /\ UNCHANGED chunkDone
           ELSE UNCHANGED <<chunkDone, bpc, promise>>
  /\ UNCHANGED <<pc, items, batchSize, hasOnBatchStart, caller, i, results,
                 trace, concurrencyLimit, code, personaVars, appVars, ret>>
  /\ UNCHANGED compVars

\* A processor call resolves
ProcResolve(k, body) ==
  /\ ~Busy
  /\ k \in DOMAIN reqs
  /\ reqs[k].round # "round0"
  /\ reqs[k].status = "pending"
  /\ body \in Responses(reqs[k].round, reqs[k].item)
  /\ reqs' = [reqs EXCEPT ![k].status = "resolved",
                          ![k].body = Received(body),
                          ![k].value = ProcessorValue(reqs[k].round, reqs[k].item, body)]
  /\ IF bpc = "await" /\ InChunk(k)
     THEN /\ chunkDone' = Append(chunkDone, reqs[k].index)
          /\ bpc' = IF ChunkFulfilled(reqs') THEN "resume" ELSE "await"
     ELSE UNCHANGED <<chunkDone, bpc>>
  /\ UNCHANGED <<pc, items, batchSize, hasOnBatchStart, caller, i, results, promise,
                 trace, concurrencyLimit, code, personaVars, appVars, ret>>
  /\ UNCHANGED compVars

\* Variant: a rejection is kept as a value and the wait goes on (allSettled)
ProcRejectSettled(k, kind) ==
  /\ ~Busy
  /\ k \in DOMAIN reqs
  /\ reqs[k].round # "round0"
  /\ reqs[k].status = "pending"
  /\ kind \in FailureKinds
  /\ reqs' = [reqs EXCEPT ![k].status = "rejected",
                          ![k].value = ProcessorError(reqs[k].round, reqs[k].item, kind)]
  /\ IF bpc = "await" /\ InChunk(k)
     THEN /\ chunkDone' = Append(chunkDone, reqs[k].index)
          /\ bpc' = IF \A idx \in ChunkIndices : \E r \in DOMAIN reqs :
                         /\ reqs'[r].round = caller /\ reqs'[r].index = idx
                         /\ reqs'[r].status # "pending"
                    THEN "resume" ELSE "await"
     ELSE UNCHANGED <<chunkDone, bpc>>
  /\ UNCHANGED <<pc, items, batchSize, hasOnBatchStart, caller, i, results, promise,
                 trace, concurrencyLimit, code, personaVars, appVars, ret>>
  /\ UNCHANGED compVars

\* A processor call rejects: Promise.all rejects with the first rejection
ProcReject(k, kind) ==
  /\ ~Busy
  /\ k \in DOMAIN reqs
  /\ reqs[k].round # "round0"
  /\ reqs[k].status = "pending"
  /\ kind \in FailureKinds
  /\ reqs' = [reqs EXCEPT ![k].status = "rejected",
                          ![k].value = ProcessorError(reqs[k].round, reqs[k].item, kind)]
  /\ IF bpc = "await" /\ InChunk(k)
     THEN /\ bpc' = "rejected"
          /\ promise' = Rejected(ProcessorError(reqs[k].round, reqs[k].item, kind))
     ELSE UNCHANGED <<bpc, promise>>
  /\ UNCHANGED <<pc, items, batchSize, hasOnBatchStart, caller, i, results, chunkDone,
                 trace, concurrencyLimit, code, personaVars, appVars, ret>>
  /\ UNCHANGED compVars

\* Variant: the loop variable is not advanced
AwaitResumeNoAdvance ==
  /\ bpc = "resume"
  /\ results' = results \o BatchResults
  /\ i' = i
  /\ bpc' = "loop"
  /\ UNCHANGED <<pc, items, batchSize, hasOnBatchStart, caller, promise, chunkDone,
                 reqs, trace, concurrencyLimit, code, personaVars, appVars, ret>>
  /\ UNCHANGED compVars

\* Variant: each value is pushed to results as its call completes
AwaitResumeByCompletion ==
  /\ bpc = "resume"
  /\ results' = results \o [k \in 1..Len(chunkDone) |-> reqs[ReqAt(chunkDone[k])].value]
  /\ i' = i + batchSize
  /\ bpc' = "loop"
  /\ UNCHANGED <<pc, items, batchSize, hasOnBatchStart, caller, promise, chunkDone,
                 reqs, trace, concurrencyLimit, code, personaVars, appVars, ret>>
  /\ UNCHANGED compVars

\* The await of Promise.all resumes (lines 25-26) and the loop increments
AwaitResume ==
  /\ bpc = "resume"
  /\ results' = results \o BatchResults
  /\ i' = i + batchSize
  /\ bpc' = "loop"
  /\ UNCHANGED <<pc, items, batchSize, hasOnBatchStart, caller, promise, chunkDone,
                 reqs, trace, concurrencyLimit, code, personaVars, appVars, ret>>
  /\ UNCHANGED compVars

\* ------------------------------------------- processInBatches, called directly
ItemLists == {SubSeq(ItemPool, 1, n) : n \in 0..MaxItems}

InitBatch ==
  /\ pc = "direct"
  /\ items \in ItemLists
  /\ batchSize \in 1..MaxBatch
  /\ hasOnBatchStart \in BOOLEAN
  /\ caller = "run"
  /\ i = 0
  /\ results = <<>>
  /\ bpc = "loop"
  /\ promise = Pending
  /\ chunkDone = <<>>
  /\ reqs = <<>>
  /\ trace = <<>>
  /\ keywords = <<>>
  /\ concurrencyLimit = batchSize
  /\ preliminarySummary = None
  /\ analysisResults = EmptyObject
  /\ allMainConcepts = <<>>
  /\ code = <<>>
  /\ ret = Pending
  /\ PersonaIdle
  /\ AppIdle

NextBatch ==
  \/ LoopStep
  \/ \E k \in DOMAIN reqs, body \in OutPool : ProcResolve(k, body)
  \/ \E k \in DOMAIN reqs, kind \in FailureKinds : ProcReject(k, kind)
  \/ AwaitResume

SpecBatch == InitBatch /\ [][NextBatch]_vars

\* The continuations of processInBatches are micro-tasks, which the event loop
\* runs; that every processor call settles is what its callers provide
FairBatch ==
  /\ WF_vars(LoopStep)
  /\ WF_vars(AwaitResume)
  /\ \A k \in 1..MaxItems :
       WF_vars((\E body \in OutPool : ProcResolve(k, body))
                          \/ (\E kind \in FailureKinds : ProcReject(k, kind)))

SpecBatchFair == SpecBatch /\ FairBatch

\* --------------------------------------- performComprehensiveAnalysis
KeywordLists == {SubSeq(KeywordPool, 1, n) : n \in 1..MaxKeywords}

\* parsedContent.summary of a 2xx Round-0 body, by JavaScript type
SummaryValues == {<<"string", "S">>, <<"string", "">>, <<"object", "O">>, <<"absent">>}

\* How the Round-0 request can end
R0Outcomes ==
  {[ok |-> TRUE, summary |-> v] : v \in SummaryValues}
    \cup {[ok |-> FALSE, kind |-> k] : k \in FailureKinds}

NoValidSummary == <<"no-valid-summary">>
FailurePlaceholder(kind) == <<"summary-failed", kind>>

\* preliminarySummary after the try/catch of Round 0 (lines 254-278)
Round0Summary(o) ==
  IF ~o.ok THEN FailurePlaceholder(o.kind)
  ELSE CASE o.summary[1] = "string" ->
              IF o.summary[2] # "" THEN <<"text", o.summary[2]>> ELSE NoValidSummary
         [] o.summary[1] = "object" -> <<"formatted", o.summary[2]>>
         [] OTHER -> NoValidSummary

\* round1Results.forEach(res => analysisResults[res.keyword] = { primary: res.data })
RECURSIVE Round1Merge(_, _)
Round1Merge(acc, rs) ==
  IF rs = <<>> THEN acc
  ELSE Round1Merge(Assign(acc, Head(rs).keyword, [primary |-> Head(rs).data]), Tail(rs))

\* Variant: only the first concept of each keyword is carried into Round 2
RECURSIVE FlatFirstConcepts(_)
FlatFirstConcepts(rs) ==
  IF rs = <<>> THEN <<>>
  ELSE [k \in 1..Min(1, Len(Head(rs).data)) |->
          [concept |-> Head(rs).data[k], keyword |-> Head(rs).keyword]]
       \o FlatFirstConcepts(Tail(rs))

\* round1Results.flatMap(res => res.data.map(concept => ({...concept, keyword})))
RECURSIVE FlatMainConcepts(_)
FlatMainConcepts(rs) ==
  IF rs = <<>> THEN <<>>
  ELSE [k \in 1..Len(Head(rs).data) |->
          [concept |-> Head(rs).data[k], keyword |-> Head(rs).keyword]]
       \o FlatMainConcepts(Tail(rs))

\* Variant: each Round-2 result replaces the keyword's secondary list
ReplaceSecondary(acc, res) ==
  IF res.keyword \in DOMAIN acc
  THEN [acc EXCEPT ![res.keyword] = [primary |-> @.primary, secondary |-> res.data]]
  ELSE acc

\* The body of round2Results.forEach (lines 383-388)
PushSecondary(acc, res) ==
  IF res.keyword \in DOMAIN acc
  THEN [acc EXCEPT ![res.keyword] =
          [primary |-> @.primary,
           secondary |-> (IF "secondary" \in DOMAIN @ THEN @.secondary ELSE <<>>)
                           \o res.data]]
  ELSE acc

RECURSIVE Round2Merge(_, _)
Round2Merge(acc, rs) ==
  IF rs = <<>> THEN acc ELSE Round2Merge(PushSecondary(acc, Head(rs)), Tail(rs))

CompReturn(summary, res) == Resolved([preliminarySummary |-> summary, results |-> res])

InitComp ==
  /\ pc = "idle"
  /\ keywords \in KeywordLists
  /\ concurrencyLimit \in 1..MaxLimit
  /\ items = <<>>
  /\ batchSize = concurrencyLimit
  /\ hasOnBatchStart = TRUE
  /\ caller = None
  /\ i = 0
  /\ results = <<>>
  /\ bpc = "idle"
  /\ promise = Pending
  /\ chunkDone = <<>>
  /\ reqs = <<>>
  /\ trace = <<>>
  /\ preliminarySummary = None
  /\ analysisResults = EmptyObject
  /\ allMainConcepts = <<>>
  /\ code = <<>>
  /\ ret = Pending
  /\ PersonaIdle
  /\ AppIdle

\* Variant: the Round-0 request is sent but not awaited, Round 1 starts at once
CompStartNoAwait ==
  /\ pc = "idle"
  /\ pc' = "round1"
  /\ preliminarySummary' = <<"text", "">>
  /\ reqs' = Append(reqs, [round |-> "round0", index |-> 0, item |-> "document",
                           prompt |-> [textContent |-> "document"],
                           signal |-> NoSignal, body |-> NotReceived,
                           status |-> "pending", value |-> NoValue])
  /\ trace' = Append(trace, [ev |-> "call", round |-> "round0", index |-> 0])
  /\ processInBatches(keywords, concurrencyLimit, "round1")
  /\ UNCHANGED <<keywords, analysisResults, allMainConcepts, concurrencyLimit, code, personaVars, appVars, ret>>

\* performComprehensiveAnalysis is called: the Round-0 request is sent (235-253)
CompStart ==
  /\ pc = "idle"
  /\ pc' = "round0"
  /\ preliminarySummary' = <<"text", "">>
  /\ reqs' = Append(reqs, [round |-> "round0", index |-> 0, item |-> "document",
                           prompt |-> [textContent |-> "document"],
                           signal |-> NoSignal, body |-> NotReceived,
                           status |-> "pending", value |-> NoValue])
  /\ trace' = Append(trace, [ev |-> "call", round |-> "round0", index |-> 0])
  /\ UNCHANGED batchVars
  /\ UNCHANGED <<keywords, analysisResults, allMainConcepts, concurrencyLimit, code, personaVars, appVars, ret>>

\* Variant: a failed Round 0 is not caught and rejects the pipeline
R0SettleFatal(o) ==
  /\ ~Busy
  /\ pc = "round0"
  /\ reqs[1].status = "pending"
  /\ reqs' = [reqs EXCEPT ![1].status = IF o.ok THEN "resolved" ELSE "rejected",
                          ![1].value = o]
  /\ IF o.ok
     THEN /\ preliminarySummary' = Round0Summary(o)
          /\ pc' = "round1"
          /\ processInBatches(keywords, concurrencyLimit, "round1")
          /\ UNCHANGED ret
     ELSE /\ pc' = "rejected"
          /\ ret' = Rejected([stage |-> "round0", name |-> "document", cause |-> o.kind])
          /\ UNCHANGED preliminarySummary
          /\ UNCHANGED batchVars
  /\ UNCHANGED <<trace, keywords, analysisResults, allMainConcepts, concurrencyLimit,
                 code, personaVars, appVars>>

\* The Round-0 request settles; the summary is set either way and Round 1 is
\* entered (254-322)
R0Settle(o) ==
  /\ ~Busy
  /\ pc = "round0"
  /\ reqs[1].status = "pending"
  /\ preliminarySummary' = Round0Summary(o)
  /\ reqs' = [reqs EXCEPT ![1].status = IF o.ok THEN "resolved" ELSE "rejected",
                          ![1].value = o]
  /\ pc' = "round1"
  /\ processInBatches(keywords, concurrencyLimit, "round1")
  /\ UNCHANGED <<trace, keywords, analysisResults, allMainConcepts, concurrencyLimit,
                 code, personaVars, appVars, ret>>

\* Round 1 has resolved: merge, flatten, and enter Round 2 or return (324-392)
R1Done ==
  /\ pc = "round1"
  /\ bpc = "resolved"
  /\ analysisResults' = Round1Merge(EmptyObject, promise.value)
  /\ allMainConcepts' = FlatMainConcepts(promise.value)
  /\ IF Len(allMainConcepts') > 0
     THEN /\ pc' = "round2"
          /\ processInBatches(allMainConcepts', concurrencyLimit, "round2")
          /\ UNCHANGED ret
     ELSE /\ pc' = "resolved"
          /\ ret' = CompReturn(preliminarySummary, analysisResults')
          /\ UNCHANGED batchVars
  /\ UNCHANGED <<reqs, trace, keywords, preliminarySummary, concurrencyLimit, code, personaVars, appVars>>

\* Round 2 has resolved: accumulate the secondary concepts and return (382-392)
R2Done ==
  /\ pc = "round2"
  /\ bpc = "resolved"
  /\ analysisResults' = Round2Merge(analysisResults, promise.value)
  /\ pc' = "resolved"
  /\ ret' = CompReturn(preliminarySummary, analysisResults')
  /\ UNCHANGED batchVars
  /\ UNCHANGED <<reqs, trace, keywords, preliminarySummary, allMainConcepts,
                 concurrencyLimit, code, personaVars, appVars>>

\* Variant: a rejected round is swallowed and what was merged so far is returned
PipelineRejectPartial ==
  /\ pc \in {"round1", "round2", "domains"}
  /\ bpc = "rejected"
  /\ pc' = "resolved"
  /\ ret' = CompReturn(preliminarySummary, analysisResults)
  /\ UNCHANGED batchVars
  /\ UNCHANGED compVars
  /\ UNCHANGED <<reqs, trace, concurrencyLimit, code, personaVars, appVars>>

\* The awaited processInBatches rejected: the pipeline rejects with its error
PipelineReject ==
  /\ pc \in {"round1", "round2", "domains"}
  /\ bpc = "rejected"
  /\ pc' = "rejected"
  /\ ret' = Rejected(promise.error)
  /\ UNCHANGED batchVars
  /\ UNCHANGED compVars
  /\ UNCHANGED <<reqs, trace, concurrencyLimit, code, personaVars, appVars>>

NextComp ==
  \/ CompStart
  \/ \E o \in R0Outcomes : R0Settle(o)
  \/ LoopStep
  \/ \E k \in DOMAIN reqs :
       \E body \in Responses(reqs[k].round, reqs[k].item) : ProcResolve(k, body)
  \/ \E k \in DOMAIN reqs, kind \in FailureKinds : ProcReject(k, kind)
  \/ AwaitResume
  \/ R1Done
  \/ R2Done
  \/ PipelineReject

SpecComp == InitComp /\ [][NextComp]_vars

\* ------------------------------------ getStructuredAnalysisFromContent
DigitPool == <<"1", "3", "2", "4", "1", "2">>

\* segments.join('-'), a code being a sequence of characters
RECURSIVE JoinDash(_)
JoinDash(segs) ==
  IF segs = <<>> THEN <<>>
  ELSE IF Len(segs) = 1 THEN Head(segs)
  ELSE Head(segs) \o <<"-">> \o JoinDash(Tail(segs))

\* The item codes of the index: 1 to MaxSegments one-digit segments
Codes == {JoinDash([k \in 1..n |-> <<DigitPool[k]>>]) : n \in 1..MaxSegments}

\* code.split('-')
RECURSIVE SplitDash(_)
SplitDash(str) ==
  IF str = <<>> THEN << <<>> >>
  ELSE LET rest == SplitDash(Tail(str))
       IN IF Head(str) = "-"
          THEN << <<>> >> \o rest
          ELSE << <<Head(str)>> \o Head(rest) >> \o Tail(rest)

digits == SplitDash(code)

\* Variant: every domain, whatever the code's depth
domainsToProcessAll == DOMAIN_DEFINITIONS

domainsToProcess == Slice(DOMAIN_DEFINITIONS, 0, Len(digits))

\* analysisParts.forEach(part => analysis[part.domainKey] = part.concepts)
RECURSIVE MergeParts(_, _)
MergeParts(acc, parts) ==
  IF parts = <<>> THEN acc
  ELSE MergeParts(Assign(acc, Head(parts).domainKey, Head(parts).concepts), Tail(parts))

analysisPrompts ==
  [k \in 1..Len(domainsToProcess) |->
     RenderPrompt("domains", domainsToProcess[k], preliminarySummary, code)]

InitDomain ==
  /\ pc = "idle"
  /\ code \in Codes
  /\ concurrencyLimit \in 1..MaxLimit
  /\ items = <<>>
  /\ batchSize = concurrencyLimit
  /\ hasOnBatchStart = TRUE
  /\ caller = None
  /\ i = 0
  /\ results = <<>>
  /\ bpc = "idle"
  /\ promise = Pending
  /\ chunkDone = <<>>
  /\ reqs = <<>>
  /\ trace = <<>>
  /\ keywords = <<>>
  /\ preliminarySummary = None
  /\ analysisResults = EmptyObject
  /\ allMainConcepts = <<>>
  /\ ret = Pending
  /\ PersonaIdle
  /\ AppIdle

\* getStructuredAnalysisFromContent is called: the domains are chosen and handed
\* to processInBatches (93-153)
DomStart ==
  /\ pc = "idle"
  /\ pc' = "domains"
  /\ processInBatches(domainsToProcess, concurrencyLimit, "domains")
  /\ UNCHANGED <<reqs, trace, concurrencyLimit, code, personaVars, appVars, ret>>
  /\ UNCHANGED compVars

\* processInBatches has resolved: the parts are merged and returned (155-160)
DomDone ==
  /\ pc = "domains"
  /\ bpc = "resolved"
  /\ pc' = "resolved"
  /\ ret' = Resolved([analysis |-> MergeParts(EmptyObject, promise.value),
                      prompts |-> analysisPrompts])
  /\ UNCHANGED batchVars
  /\ UNCHANGED compVars
  /\ UNCHANGED <<reqs, trace, concurrencyLimit, code, personaVars, appVars>>

NextDomain ==
  \/ DomStart
  \/ LoopStep
  \/ \E k \in DOMAIN reqs :
       \E body \in Responses(reqs[k].round, reqs[k].item) : ProcResolve(k, body)
  \/ \E k \in DOMAIN reqs, kind \in FailureKinds : ProcReject(k, kind)
  \/ AwaitResume
  \/ DomDone
  \/ PipelineReject

SpecDomain == InitDomain /\ [][NextDomain]_vars

\* --------------------------------------------- either pipeline is called
InitPipelines == InitComp \/ InitDomain

NextPipelines ==
  \/ keywords # <<>> /\ NextComp
  \/ keywords = <<>> /\ NextDomain

SpecPipelines == InitPipelines /\ [][NextPipelines]_vars

\* ------------------------------------------------ getEffectiveParameters
DefaultKey == <<"d", "e", "f", "a", "u", "l", "t">>

\* temperature and topP in hundredths
defaultPersonaParameters ==
  ( DefaultKey :> [temperature |-> 70, topP |-> 90, maxHistoryTurns |-> 5]
    @@ <<"1">> :> [temperature |-> 50, topP |-> 95, maxHistoryTurns |-> 3]
    @@ <<"1", "-", "3">> :> [temperature |-> 60, topP |-> 90, maxHistoryTurns |-> 4]
    @@ <<"1", "-", "3", "-", "1">> :> [temperature |-> 65, topP |-> 88, maxHistoryTurns |-> 4]
    @@ <<"2">> :> [temperature |-> 70, topP |-> 90, maxHistoryTurns |-> 5]
    @@ <<"3">> :> [temperature |-> 80, topP |-> 85, maxHistoryTurns |-> 6]
    @@ <<"4">> :> [temperature |-> 90, topP |-> 80, maxHistoryTurns |-> 8]
    @@ <<"4", "-", "1">> :> [temperature |-> 95, topP |-> 80, maxHistoryTurns |-> 10] )

\* Variant: the loop stops before the one-segment prefix (i > 1)
RECURSIVE PrefixLookupSkipsFirst(_, _, _)
PrefixLookupSkipsFirst(parts, n, config) ==
  IF n <= 1 THEN config[DefaultKey]
  ELSE LET prefix == JoinDash(SubSeq(parts, 1, n))
       IN IF prefix \in DOMAIN config THEN config[prefix]
          ELSE PrefixLookupSkipsFirst(parts, n - 1, config)

\* for (let i = parts.length; i > 0; i--) with the return after the loop
RECURSIVE PrefixLookup(_, _, _)
PrefixLookup(parts, n, config) ==
  IF n = 0 THEN config[DefaultKey]
  ELSE LET prefix == JoinDash(SubSeq(parts, 1, n))
       IN IF prefix \in DOMAIN config THEN config[prefix]
          ELSE PrefixLookup(parts, n - 1, config)

getEffectiveParameters(c, config) ==
  IF ~c.defined \/ c.str = <<>> THEN config[DefaultKey]
  ELSE PrefixLookup(SplitDash(c.str), Len(SplitDash(c.str)), config)

\* Codes of 1 to MaxSegments one-digit segments over three digits
CodeDigits == {"1", "3", "4"}
RECURSIVE CodesOfLength(_)
CodesOfLength(n) ==
  IF n = 1 THEN {<<d>> : d \in CodeDigits}
  ELSE {c \o <<"-", d>> : c \in CodesOfLength(n - 1), d \in CodeDigits}
CodeInputs ==
  {Undefined, Str(<<>>)} \cup {Str(c) : c \in UNION {CodesOfLength(n) : n \in 1..MaxSegments}}

\* Configurations: the default entry and any of the other shipped entries
ShippedKeys == {<<"1">>, <<"1", "-", "3">>, <<"1", "-", "3", "-", "1">>, <<"3">>,
                <<"4", "-", "1">>}
ParamConfigs ==
  {[k \in ks \cup {DefaultKey} |-> defaultPersonaParameters[k]] : ks \in SUBSET ShippedKeys}

InitParams ==
  /\ PipelineIdle
  /\ AppIdle
  /\ philosophyCode \in CodeInputs
  /\ parameterConfig \in ParamConfigs
  /\ params = NotCalled
  /\ ComponentsMounted

\* const params = getEffectiveParameters(philosophyCode, parameterConfig)
GetParams ==
  /\ params = NotCalled
  /\ params' = getEffectiveParameters(philosophyCode, parameterConfig)
  /\ UNCHANGED <<pipelineVars, appVars>>
  /\ UNCHANGED <<philosophyCode, parameterConfig, ctls, conversationController,
                 generationController, isConversing, mode, activeChat, history,
                 messages, errors, isLoading, personaPrompt, ops, fetches>>

NextParams == GetParams

SpecParams == InitParams /\ [][NextParams]_vars

\* --------------------------------------------------------- chatWithPersona
MaxHistory == 6
MaxKeptTurns == 3

\* A message content is a sequence of tokens; " " is white space
Whitespace == " "
RECURSIVE TrimStart(_)
TrimStart(t) == IF t # <<>> /\ Head(t) = Whitespace THEN TrimStart(Tail(t)) ELSE t
RECURSIVE TrimEnd(_)
TrimEnd(t) ==
  IF t # <<>> /\ t[Len(t)] = Whitespace THEN TrimEnd(SubSeq(t, 1, Len(t) - 1)) ELSE t
\* String.prototype.trim
Trim(t) == TrimEnd(TrimStart(t))

\* replace(/<thinking>[\s\S]*?<\/thinking>/, ''): the first tagged span is removed
StripThinking(t) ==
  LET opens == {a \in DOMAIN t : t[a] = "<thinking>" /\
                  \E b \in DOMAIN t : b > a /\ t[b] = "</thinking>"}
  IN IF opens = {} THEN t
     ELSE LET a == CHOOSE x \in opens : \A y \in opens : x <= y
              b == CHOOSE x \in DOMAIN t :
                     /\ x > a /\ t[x] = "</thinking>"
                     /\ \A y \in DOMAIN t : (y > a /\ t[y] = "</thinking>") => x <= y
          IN SubSeq(t, 1, a - 1) \o SubSeq(t, b + 1, Len(t))

\* Array.prototype.slice(-n)
SliceLast(h, n) == IF n = 0 THEN h ELSE SubSeq(h, Len(h) - Min(n, Len(h)) + 1, Len(h))

AbortError == [name |-> "AbortError"]
StageFailure(stage, cause) == [name |-> "Error", stage |-> stage, cause |-> cause]

Settled == {"ok", "failed", "aborted"}
NoBody == [none |-> TRUE]

\* fetch(API_ENDPOINT, {..., signal}): rejected at once when the signal is aborted
NewFetch(o, stage, msgs, c) ==
  [op |-> o, stage |-> stage, messages |-> msgs, signal |-> c,
   status |-> IF c \in DOMAIN ctls /\ ctls[c] THEN "aborted" ELSE "pending",
   body |-> NoBody, cause |-> None]

\* What controller.abort() does to the fetches that carry its signal: a pending
\* fetch rejects with the AbortError; while handleApiError reads the body of a
\* non-2xx response the read rejects and handleApiError catches it (54-72)
AbortFetches(c) ==
  [k \in DOMAIN fetches |->
     IF fetches[k].signal # c THEN fetches[k]
     ELSE IF fetches[k].status = "pending"
          THEN [fetches[k] EXCEPT !.status = "aborted"]
     ELSE IF fetches[k].status = "errbody"
          THEN [fetches[k] EXCEPT !.status = "failed", !.cause = "parse"]
     ELSE fetches[k]]

\* A rejected fetch as the catch block of a call rethrows it
CaughtError(f, stage) ==
  IF f.status = "aborted" THEN AbortError ELSE StageFailure(stage, f.cause)

SystemMessage == [role |-> "system", content |-> <<"systemPrompt">>]
ApiMessage(msg) ==
  [role |-> IF msg.role = "model" THEN "assistant" ELSE "user", content |-> msg.content]
ApiMessages(h) == [k \in 1..Len(h) |-> ApiMessage(h[k])]

\* Variant: one message per turn is kept (the * 2 is missing)
effectiveHistoryTurns(h) ==
  SliceLast(h, getEffectiveParameters(philosophyCode, parameterConfig).maxHistoryTurns)

\* history.slice(-params.maxHistoryTurns * 2)
effectiveHistory(h) ==
  SliceLast(h, getEffectiveParameters(philosophyCode, parameterConfig).maxHistoryTurns * 2)

\* Variant: the window of 4 is cut from the whole history
ThinkingMessagesOfHistory(prompt, h, msg) ==
  <<SystemMessage>> \o ApiMessages(SliceLast(h, 4))
    \o <<[role |-> "user", content |-> <<"thinkingPrompt">>, userInput |-> msg]>>

\* The messages of the thinking request (1538-1542)
ThinkingMessages(prompt, h, msg) ==
  <<SystemMessage>> \o ApiMessages(SliceLast(effectiveHistory(h), 4))
    \o <<[role |-> "user", content |-> <<"thinkingPrompt">>, userInput |-> msg]>>

\* The messages of the reply request (1570-1576)
ReplyMessages(prompt, h, msg, thinkingContent) ==
  <<SystemMessage>> \o ApiMessages(effectiveHistory(h))
    \o << [role |-> "user", content |-> msg],
          [role |-> "assistant", content |-> thinkingContent],
          [role |-> "user", content |-> <<"replyPrompt">>, userInput |-> msg,
           thinking_content |-> thinkingContent] >>

\* A handler invocation or a direct call, with the locals the model follows
NewOp(kind, persona, c) ==
  [kind |-> kind, persona |-> persona, ctl |-> c, pc |-> "call", await |-> 0,
   turn |-> Pending, prompt |-> NoPrompt, historyArg |-> <<>>, message |-> <<>>,
   thinkingContent |-> <<>>, before |-> <<>>, i |-> 0, historyA |-> <<>>,
   historyB |-> <<>>, currentMessage |-> <<>>, prompts |-> personaPrompt,
   mounted |-> TRUE, outcome |-> NoError]

\* chatWithPersona up to its first await (1512-1547): the op as it is left
ChatEnter(op, prompt, h, msg) ==
  IF prompt.structured
  THEN [op EXCEPT !.prompt = prompt, !.historyArg = h, !.message = msg,
                  !.thinkingContent = <<>>, !.turn = Pending, !.pc = "thinking",
                  !.await = Len(fetches) + 1]
  ELSE [op EXCEPT !.prompt = prompt, !.historyArg = h, !.message = msg,
                  !.thinkingContent = <<>>, !.pc = "settled", !.await = 0,
                  !.turn = Rejected(StageFailure("prompt", "structure"))]

\* chatWithPersona up to its first await: the fetch it issues
ChatEnterFetches(o, prompt, h, msg, c) ==
  IF prompt.structured
  THEN <<NewFetch(o, "thinking", ThinkingMessages(prompt, h, msg), c)>>
  ELSE <<>>

\* Micro-tasks of the persona side pending: they run before the next event
PBusy ==
  \E o \in DOMAIN ops :
    IF ops[o].pc \in {"thinking", "reply", "generate"}
    THEN fetches[ops[o].await].status \in Settled
    ELSE ops[o].pc \in {"settled", "returned"} /\ ops[o].kind # "direct"

paramVars == <<philosophyCode, parameterConfig, params>>
uiVars == <<conversationController, generationController, isConversing, mode,
            activeChat, history, messages, errors, isLoading, personaPrompt>>

StructuredPrompt == [text |-> "persona", structured |-> TRUE]
UnstructuredPrompt == [text |-> "persona", structured |-> FALSE]

\* data.choices[0].message.content of a 2xx response, by request
Bodies(stage) ==
  CASE stage = "thinking" -> {[content |-> <<"t1">>], [content |-> <<" ", "t2", " ">>]}
    [] stage = "reply" -> {[content |-> <<"r1", " ">>],
                           [content |-> <<"<thinking>", "x", "</thinking>", " ", "r2">>]}
    [] stage = "generate" -> {[content |-> StructuredPrompt],
                              [content |-> UnstructuredPrompt]}

\* A 2xx response whose content is read
FetchOk(k, body) ==
  /\ ~PBusy
  /\ k \in DOMAIN fetches
  /\ fetches[k].status = "pending"
  /\ body \in Bodies(fetches[k].stage)
  /\ fetches' = [fetches EXCEPT ![k].status = "ok", ![k].body = body]
  /\ UNCHANGED <<pipelineVars, appVars, paramVars, uiVars, ctls, ops>>

\* fetch rejects (network), or a 2xx body that is not the expected JSON
FetchFail(k, kind) ==
  /\ ~PBusy
  /\ k \in DOMAIN fetches
  /\ fetches[k].status = "pending"
  /\ kind \in {"network", "malformed"}
  /\ fetches' = [fetches EXCEPT ![k].status = "failed", ![k].cause = kind]
  /\ UNCHANGED <<pipelineVars, appVars, paramVars, uiVars, ctls, ops>>

\* A non-2xx response arrives: handleApiError starts to read its body (50-68)
FetchHttpError(k) ==
  /\ ~PBusy
  /\ k \in DOMAIN fetches
  /\ fetches[k].status = "pending"
  /\ fetches' = [fetches EXCEPT ![k].status = "errbody"]
  /\ UNCHANGED <<pipelineVars, appVars, paramVars, uiVars, ctls, ops>>

\* handleApiError has read the body and returns the Error that is thrown (56-74)
ErrorBodyRead(k) ==
  /\ ~PBusy
  /\ k \in DOMAIN fetches
  /\ fetches[k].status = "errbody"
  /\ fetches' = [fetches EXCEPT ![k].status = "failed", ![k].cause = "http"]
  /\ UNCHANGED <<pipelineVars, appVars, paramVars, uiVars, ctls, ops>>

\* Variant: the reply request is sent whatever became of the thinking request
AfterThinkingAlways(o) ==
  /\ o \in DOMAIN ops
  /\ ops[o].pc = "thinking"
  /\ fetches[ops[o].await].status \in Settled
  /\ LET f == fetches[ops[o].await]
         content == IF f.status = "ok" THEN Trim(f.body.content) ELSE <<>>
     IN /\ ops' = [ops EXCEPT ![o].thinkingContent = content, ![o].pc = "reply",
                              ![o].await = Len(fetches) + 1]
        /\ fetches' = Append(fetches,
             NewFetch(o, "reply",
                      ReplyMessages(ops[o].prompt, ops[o].historyArg, ops[o].message,
                                    content), ops[o].ctl))
  /\ UNCHANGED <<pipelineVars, appVars, paramVars, uiVars, ctls>>

\* Variant: the first catch block rethrows every failure but the abort
AfterThinkingPastAbort(o) ==
  /\ o \in DOMAIN ops
  /\ ops[o].pc = "thinking"
  /\ fetches[ops[o].await].status \in Settled
  /\ LET f == fetches[ops[o].await]
         content == IF f.status = "ok" THEN Trim(f.body.content) ELSE <<>>
     IN IF f.status \in {"ok", "aborted"}
        THEN /\ ops' = [ops EXCEPT ![o].thinkingContent = content, ![o].pc = "reply",
                                   ![o].await = Len(fetches) + 1]
             /\ fetches' = Append(fetches,
                  NewFetch(o, "reply",
                           ReplyMessages(ops[o].prompt, ops[o].historyArg,
                                         ops[o].message, content),
                           ops[o].ctl))
        ELSE /\ ops' = [ops EXCEPT ![o].turn = Rejected(CaughtError(f, "thinking")),
                                   ![o].pc = "settled"]
             /\ UNCHANGED fetches
  /\ UNCHANGED <<pipelineVars, appVars, paramVars, uiVars, ctls>>

\* chatWithPersona after the thinking request (1548-1581): the reply request is
\* sent, or the call rejects from the first catch block
AfterThinking(o) ==
  /\ o \in DOMAIN ops
  /\ ops[o].pc = "thinking"
  /\ fetches[ops[o].await].status \in Settled
  /\ LET f == fetches[ops[o].await]
     IN IF f.status = "ok"
        THEN /\ ops' = [ops EXCEPT ![o].thinkingContent = Trim(f.body.content),
                                   ![o].pc = "reply",
                                   ![o].await = Len(fetches) + 1]
             /\ fetches' = Append(fetches,
                  NewFetch(o, "reply",
                           ReplyMessages(ops[o].prompt, ops[o].historyArg,
                                         ops[o].message, Trim(f.body.content)),
                           ops[o].ctl))
        ELSE /\ ops' = [ops EXCEPT ![o].turn = Rejected(CaughtError(f, "thinking")),
                                   ![o].pc = "settled"]
             /\ UNCHANGED fetches
  /\ UNCHANGED <<pipelineVars, appVars, paramVars, uiVars, ctls>>

\* chatWithPersona after the reply request (1583-1596)
AfterReply(o) ==
  /\ o \in DOMAIN ops
  /\ ops[o].pc = "reply"
  /\ fetches[ops[o].await].status \in Settled
  /\ LET f == fetches[ops[o].await]
     IN ops' = [ops EXCEPT
          ![o].pc = "settled",
          ![o].turn = IF f.status = "ok"
                      THEN Resolved([thinking |-> ops[o].thinkingContent,
                                     reply |-> Trim(StripThinking(Trim(f.body.content)))])
                      ELSE Rejected(CaughtError(f, "reply"))]
  /\ UNCHANGED <<pipelineVars, appVars, paramVars, uiVars, ctls, fetches>>

\* ------------------------------------------ chatWithPersona, called directly
\* Histories of 0 to MaxHistory messages, user and model in turn
HistoryNames == <<"h1", "h2", "h3", "h4", "h5", "h6", "h7", "h8", "h9", "h10">>
HistoryPool ==
  [k \in 1..(MaxHistory + 2) |->
     [role |-> IF k % 2 = 1 THEN "user" ELSE "model", content |-> <<HistoryNames[k]>>]]
Histories == {SubSeq(HistoryPool, 1, n) : n \in 0..MaxHistory}

\* The shipped configuration with one entry's maxHistoryTurns set in the settings
TurnConfigs ==
  {[defaultPersonaParameters EXCEPT ![k].maxHistoryTurns = m] :
     k \in {DefaultKey, <<"1">>}, m \in 1..MaxKeptTurns}

InitTurn ==
  /\ PipelineIdle
  /\ AppIdle
  /\ philosophyCode \in {Undefined, Str(<<"1">>)}
  /\ parameterConfig \in TurnConfigs
  /\ params = NotCalled
  /\ ctls \in {<<FALSE>>, <<TRUE>>}
  /\ conversationController = 0
  /\ generationController = 0
  /\ isConversing = FALSE
  /\ mode = "observer"
  /\ activeChat = "A"
  /\ history = [p \in Personas |-> <<>>]
  /\ messages = <<>>
  /\ errors = [e \in ErrorSlots |-> NoError]
  /\ isLoading = [p \in Personas |-> FALSE]
  /\ personaPrompt \in {[p \in Personas |-> q] : q \in {StructuredPrompt, UnstructuredPrompt}}
  /\ ops \in {<<[NewOp("direct", "A", 1) EXCEPT !.historyArg = h]>> : h \in Histories}
  /\ fetches = <<>>

\* chatWithPersona(prompt, history, message, ..., signal, code, config) is called
TurnCall ==
  /\ Len(ops) = 1
  /\ ops[1].kind = "direct"
  /\ ops[1].pc = "call"
  /\ ops' = <<ChatEnter(ops[1], personaPrompt["A"], ops[1].historyArg, <<"q">>)>>
  /\ fetches' = fetches \o ChatEnterFetches(1, personaPrompt["A"], ops[1].historyArg,
                                            <<"q">>, ops[1].ctl)
  /\ UNCHANGED <<pipelineVars, appVars, paramVars, uiVars, ctls>>

\* The caller aborts the signal it passed
SignalAbort ==
  /\ ~PBusy
  /\ Len(ops) = 1
  /\ ops[1].kind = "direct"
  /\ ops[1].pc # "settled"
  /\ ~ctls[1]
  /\ ctls' = [ctls EXCEPT ![1] = TRUE]
  /\ fetches' = AbortFetches(1)
  /\ UNCHANGED <<pipelineVars, appVars, paramVars, uiVars, ops>>

NextTurn ==
  \/ TurnCall
  \/ SignalAbort
  \/ \E k \in DOMAIN fetches : \E body \in Bodies(fetches[k].stage) : FetchOk(k, body)
  \/ \E k \in DOMAIN fetches, kind \in {"network", "malformed"} : FetchFail(k, kind)
  \/ \E k \in DOMAIN fetches : FetchHttpError(k)
  \/ \E k \in DOMAIN fetches : ErrorBodyRead(k)
  \/ \E o \in DOMAIN ops : AfterThinking(o)
  \/ \E o \in DOMAIN ops : AfterReply(o)

SpecTurn == InitTurn /\ [][NextTurn]_vars

\* --------------------------------------------------- PersonaExtraction
MaxGenerations == 3
MaxConversations == 2
MAX_TURNS == 10

Enabled(p) == personaPrompt[p].text # ""

\* The effect of PersonaChatInterface (199-202): the active chat leaves a
\* persona that is not enabled when the other one is
ActiveChatEffect(ac, prompts) ==
  IF ac = "A" /\ prompts["A"].text = "" /\ prompts["B"].text # "" THEN "B"
  ELSE IF ac = "B" /\ prompts["B"].text = "" /\ prompts["A"].text # "" THEN "A"
  ELSE ac

StoppedMessage(kind) == [shown |-> "stopped", kind |-> kind]
FailureMessage(e) == [shown |-> "failure", stage |-> e.stage, cause |-> e.cause]
\* The catch block of a handler: what setError is given
ShownFor(e, kind) == IF e = AbortError THEN StoppedMessage(kind) ELSE FailureMessage(e)

InFlight(o) == ops[o].pc # "done"

\* A handler that has returned: its locals are gone, its outcome is kept
Returned(op, shown) ==
  [NewOp(op.kind, op.persona, op.ctl) EXCEPT
     !.pc = "done", !.turn = op.turn, !.mounted = op.mounted, !.outcome = shown,
     !.prompts = [p \in Personas |-> NoPrompt]]

\* fetches holds the requests of the handlers that have not returned
LiveFetches(opsAfter, f) ==
  IF \A o \in DOMAIN opsAfter : opsAfter[o].pc = "done" THEN <<>> ELSE f

\* handleGenerate up to its await (440-473) with generatePersonaPrompt up to its
\* fetch: the controller is created only when there is none
Generate(p) ==
  /\ ~PBusy
  /\ Len(ops) < MaxGenerations
  /\ p \in Personas
  /\ ~isLoading[p]
  /\ LET c == IF generationController = 0 THEN Len(ctls) + 1 ELSE generationController
         o == Len(ops) + 1
     IN /\ ctls' = IF generationController = 0 THEN Append(ctls, FALSE) ELSE ctls
        /\ generationController' = c
        /\ ops' = Append(ops, [NewOp("generate", p, c) EXCEPT
                                 !.pc = "generate", !.await = Len(fetches) + 1])
        /\ fetches' = Append(fetches,
                             NewFetch(o, "generate",
                                      <<[role |-> "system", content |-> <<"personaSystem">>],
                                        [role |-> "user", content |-> <<"personaUser">>]>>, c))
  /\ isLoading' = [isLoading EXCEPT ![p] = TRUE]
  /\ errors' = [errors EXCEPT ![p] = NoError]
  /\ personaPrompt' = [personaPrompt EXCEPT ![p] = NoPrompt]
  /\ activeChat' = IF mode = "chat" THEN ActiveChatEffect(activeChat, personaPrompt')
                   ELSE activeChat
  /\ UNCHANGED <<pipelineVars, appVars, paramVars, conversationController, isConversing, mode,
                 history, messages>>

\* generatePersonaPrompt after its fetch (siliconflowService.ts 472-482)
AfterGenerate(o) ==
  /\ o \in DOMAIN ops
  /\ ops[o].pc = "generate"
  /\ fetches[ops[o].await].status \in Settled
  /\ LET f == fetches[ops[o].await]
     IN ops' = [ops EXCEPT
          ![o].pc = "settled",
          ![o].turn = IF f.status = "ok" THEN Resolved(f.body.content)
                      ELSE Rejected(CaughtError(f, "generate"))]
  /\ UNCHANGED <<pipelineVars, appVars, paramVars, uiVars, ctls, fetches>>

\* handleGenerate after its await (474-485)
GenerateResume(o) ==
  /\ o \in DOMAIN ops
  /\ ops[o].kind = "generate"
  /\ ops[o].pc = "settled"
  /\ LET t == ops[o].turn
         p == ops[o].persona
         shown == IF t.kind = "rejected" THEN ShownFor(t.error, "generate") ELSE NoError
     IN /\ personaPrompt' = IF t.kind = "resolved" /\ ~ctls[ops[o].ctl]
                            THEN [personaPrompt EXCEPT ![p] = t.value]
                            ELSE personaPrompt
        /\ errors' = IF t.kind = "rejected" THEN [errors EXCEPT ![p] = shown] ELSE errors
        /\ isLoading' = [isLoading EXCEPT ![p] = FALSE]
        /\ ops' = [ops EXCEPT ![o] = Returned(ops[o], shown)]
  /\ fetches' = LiveFetches(ops', fetches)
  /\ activeChat' = IF mode = "chat" THEN ActiveChatEffect(activeChat, personaPrompt')
                   ELSE activeChat
  /\ UNCHANGED <<pipelineVars, appVars, paramVars, ctls, conversationController,
                 generationController, isConversing, mode, history, messages>>

\* handleStopGeneration (488-493); its button shows while a generation loads
StopGeneration ==
  /\ ~PBusy
  /\ \E p \in Personas : isLoading[p]
  /\ generationController # 0
  /\ ctls' = [ctls EXCEPT ![generationController] = TRUE]
  /\ fetches' = AbortFetches(generationController)
  /\ generationController' = 0
  /\ UNCHANGED <<pipelineVars, appVars, paramVars, ops, conversationController, isConversing,
                 mode, activeChat, history, messages, errors, isLoading, personaPrompt>>

\* The controller steps shared by the conversation handlers (44-48, 214-216):
\* the previous controller, if any, is aborted and a new one is installed
AfterInstall(cs) ==
  Append(IF conversationController # 0
         THEN [cs EXCEPT ![conversationController] = TRUE] ELSE cs, FALSE)
FetchesAfterInstall ==
  IF conversationController # 0 THEN AbortFetches(conversationController) ELSE fetches

UserMessage(content) == [role |-> "user", content |-> content]
ModelMessage(t) == [role |-> "model", content |-> t.reply, thinking |-> t.thinking]

\* Variant: the handler does not test isConversing
SendMessageUnguarded(msg) ==
  /\ ~PBusy
  /\ Len(ops) < MaxConversations
  /\ mode = "chat"
  /\ Trim(msg) # <<>>
  /\ Enabled(activeChat)
  /\ LET c == Len(ctls) + 1
         o == Len(ops) + 1
         newHistory == Append(history[activeChat], UserMessage(msg))
         op == [NewOp("chat", activeChat, c) EXCEPT !.before = history[activeChat]]
     IN /\ ctls' = AfterInstall(ctls)
        /\ conversationController' = c
        /\ history' = [history EXCEPT ![activeChat] = newHistory]
        /\ ops' = Append(ops, ChatEnter(op, personaPrompt[activeChat], newHistory, msg))
        /\ fetches' = FetchesAfterInstall
                        \o ChatEnterFetches(o, personaPrompt[activeChat], newHistory, msg, c)
  /\ isConversing' = TRUE
  /\ errors' = [errors EXCEPT !["chat"] = NoError]
  /\ UNCHANGED <<pipelineVars, appVars, paramVars, generationController, mode, activeChat,
                 messages, isLoading, personaPrompt>>

\* handleSendMessage up to its await (210-226), with chatWithPersona up to its
\* first fetch
SendMessage(msg) ==
  /\ ~PBusy
  /\ Len(ops) < MaxConversations
  /\ mode = "chat"
  /\ Trim(msg) # <<>>
  /\ Enabled(activeChat)
  /\ ~isConversing
  /\ LET c == Len(ctls) + 1
         o == Len(ops) + 1
         newHistory == Append(history[activeChat], UserMessage(msg))
         op == [NewOp("chat", activeChat, c) EXCEPT !.before = history[activeChat]]
     IN /\ ctls' = AfterInstall(ctls)
        /\ conversationController' = c
        /\ history' = [history EXCEPT ![activeChat] = newHistory]
        /\ ops' = Append(ops, ChatEnter(op, personaPrompt[activeChat], newHistory, msg))
        /\ fetches' = FetchesAfterInstall
                        \o ChatEnterFetches(o, personaPrompt[activeChat], newHistory, msg, c)
  /\ isConversing' = TRUE
  /\ errors' = [errors EXCEPT !["chat"] = NoError]
  /\ UNCHANGED <<pipelineVars, appVars, paramVars, generationController, mode, activeChat,
                 messages, isLoading, personaPrompt>>

\* Variant: the reply goes to the history of the tab that is open on return
SendMessageResumeOpenTab(o) ==
  /\ o \in DOMAIN ops
  /\ ops[o].kind = "chat"
  /\ ops[o].pc = "settled"
  /\ LET t == ops[o].turn
         p == activeChat
         shown == IF t.kind = "rejected" THEN ShownFor(t.error, "conversation")
                  ELSE NoError
     IN /\ history' = IF t.kind = "resolved" /\ ~ctls[ops[o].ctl] /\ ops[o].mounted
                      THEN [history EXCEPT ![p] = Append(history[p], ModelMessage(t.value))]
                      ELSE history
        /\ errors' = IF t.kind = "rejected" /\ ops[o].mounted
                     THEN [errors EXCEPT !["chat"] = shown] ELSE errors
        /\ ops' = [ops EXCEPT ![o] = Returned(ops[o], shown)]
  /\ fetches' = LiveFetches(ops', fetches)
  /\ isConversing' = FALSE
  /\ conversationController' = 0
  /\ UNCHANGED <<pipelineVars, appVars, paramVars, ctls, generationController, mode,
                 activeChat, messages, isLoading, personaPrompt>>

\* handleSendMessage after its await (227-239); a component that was unmounted
\* keeps no state
SendMessageResume(o) ==
  /\ o \in DOMAIN ops
  /\ ops[o].kind = "chat"
  /\ ops[o].pc = "settled"
  /\ LET t == ops[o].turn
         p == ops[o].persona
         shown == IF t.kind = "rejected" THEN ShownFor(t.error, "conversation")
                  ELSE NoError
     IN /\ history' = IF t.kind = "resolved" /\ ~ctls[ops[o].ctl] /\ ops[o].mounted
                      THEN [history EXCEPT ![p] = Append(history[p], ModelMessage(t.value))]
                      ELSE history
        /\ errors' = IF t.kind = "rejected" /\ ops[o].mounted
                     THEN [errors EXCEPT !["chat"] = shown] ELSE errors
        /\ ops' = [ops EXCEPT ![o] = Returned(ops[o], shown)]
  /\ fetches' = LiveFetches(ops', fetches)
  /\ isConversing' = FALSE
  /\ conversationController' = 0
  /\ UNCHANGED <<pipelineVars, appVars, paramVars, ctls, generationController, mode,
                 activeChat, messages, isLoading, personaPrompt>>

\* A tab of PersonaChatInterface is clicked (246, 253)
SetActiveChat(p) ==
  /\ ~PBusy
  /\ mode = "chat"
  /\ p \in Personas
  /\ Enabled(p)
  /\ activeChat # p
  /\ activeChat' = p
  /\ UNCHANGED <<pipelineVars, appVars, paramVars, ctls, fetches, ops, conversationController,
                 generationController, isConversing, mode, history, messages, errors,
                 isLoading, personaPrompt>>

\* handleStopConversation (495-500); its button shows while isConversing
StopConversation ==
  /\ ~PBusy
  /\ isConversing
  /\ conversationController # 0
  /\ ~ctls[conversationController]
  /\ ctls' = [ctls EXCEPT ![conversationController] = TRUE]
  /\ fetches' = AbortFetches(conversationController)
  /\ UNCHANGED <<pipelineVars, appVars, paramVars, ops, uiVars>>

\* Variant: a conversation is started while another one is running
StartConversationWhileConversing(topic) ==
  /\ ~PBusy
  /\ Len(ops) < MaxConversations
  /\ mode = "observer"
  /\ Trim(topic) # <<>>
  /\ Enabled("A") /\ Enabled("B")
  /\ LET c == Len(ctls) + 1
         o == Len(ops) + 1
         op == [NewOp("observer", "A", c) EXCEPT !.currentMessage = topic]
     IN /\ ctls' = AfterInstall(ctls)
        /\ conversationController' = c
        /\ ops' = Append(ops, ChatEnter(op, personaPrompt["A"], <<>>, topic))
        /\ fetches' = FetchesAfterInstall
                        \o ChatEnterFetches(o, personaPrompt["A"], <<>>, topic, c)
  /\ isConversing' = TRUE
  /\ errors' = [errors EXCEPT !["observer"] = NoError]
  /\ messages' = <<[speaker |-> "user", content |-> topic]>>
  /\ UNCHANGED <<pipelineVars, appVars, paramVars, generationController, mode, activeChat,
                 history, isLoading, personaPrompt>>

\* handleStartConversation up to its first await (40-69), with chatWithPersona
\* up to its first fetch
StartConversation(topic) ==
  /\ ~PBusy
  /\ Len(ops) < MaxConversations
  /\ mode = "observer"
  /\ Trim(topic) # <<>>
  /\ Enabled("A") /\ Enabled("B")
  /\ ~isConversing
  /\ LET c == Len(ctls) + 1
         o == Len(ops) + 1
         op == [NewOp("observer", "A", c) EXCEPT !.currentMessage = topic]
     IN /\ ctls' = AfterInstall(ctls)
        /\ conversationController' = c
        /\ ops' = Append(ops, ChatEnter(op, personaPrompt["A"], <<>>, topic))
        /\ fetches' = FetchesAfterInstall
                        \o ChatEnterFetches(o, personaPrompt["A"], <<>>, topic, c)
  /\ isConversing' = TRUE
  /\ errors' = [errors EXCEPT !["observer"] = NoError]
  /\ messages' = <<[speaker |-> "user", content |-> topic]>>
  /\ UNCHANGED <<pipelineVars, appVars, paramVars, generationController, mode, activeChat,
                 history, isLoading, personaPrompt>>

\* Variant: the loop test lets one more half-turn through
ObserverNextOneMore(op, o) ==
  LET t == op.turn.value
      isTurnA == op.i % 2 = 0
      newUser == UserMessage(op.currentMessage)
      hA == op.historyA \o (IF isTurnA THEN <<newUser, ModelMessage(t)>> ELSE <<newUser>>)
      hB == op.historyB \o (IF isTurnA THEN <<newUser>> ELSE <<newUser, ModelMessage(t)>>)
      next == [op EXCEPT !.historyA = hA, !.historyB = hB, !.currentMessage = t.reply,
                         !.i = op.i + 1,
                         !.persona = IF (op.i + 1) % 2 = 0 THEN "A" ELSE "B"]
  IN IF next.i <= MAX_TURNS
     THEN [op |-> ChatEnter(next, next.prompts[next.persona],
                            IF next.persona = "A" THEN hA ELSE hB, t.reply),
           issued |-> ChatEnterFetches(o, next.prompts[next.persona],
                                       IF next.persona = "A" THEN hA ELSE hB,
                                       t.reply, op.ctl)]
     ELSE [op |-> Returned(next, NoError), issued |-> <<>>]

\* Variant: currentMessage is not replaced by the reply
ObserverNextStaleMessage(op, o) ==
  LET t == op.turn.value
      isTurnA == op.i % 2 = 0
      newUser == UserMessage(op.currentMessage)
      hA == op.historyA \o (IF isTurnA THEN <<newUser, ModelMessage(t)>> ELSE <<newUser>>)
      hB == op.historyB \o (IF isTurnA THEN <<newUser>> ELSE <<newUser, ModelMessage(t)>>)
      next == [op EXCEPT !.historyA = hA, !.historyB = hB,
                         !.i = op.i + 1,
                         !.persona = IF (op.i + 1) % 2 = 0 THEN "A" ELSE "B"]
  IN IF next.i < MAX_TURNS
     THEN [op |-> ChatEnter(next, next.prompts[next.persona],
                            IF next.persona = "A" THEN hA ELSE hB, op.currentMessage),
           issued |-> ChatEnterFetches(o, next.prompts[next.persona],
                                       IF next.persona = "A" THEN hA ELSE hB,
                                       op.currentMessage, op.ctl)]
     ELSE [op |-> Returned(next, NoError), issued |-> <<>>]

\* The loop body after the await, the loop test and the next call (61-89)
ObserverNext(op, o) ==
  LET t == op.turn.value
      isTurnA == op.i % 2 = 0
      newUser == UserMessage(op.currentMessage)
      hA == op.historyA \o (IF isTurnA THEN <<newUser, ModelMessage(t)>> ELSE <<newUser>>)
      hB == op.historyB \o (IF isTurnA THEN <<newUser>> ELSE <<newUser, ModelMessage(t)>>)
      next == [op EXCEPT !.historyA = hA, !.historyB = hB, !.currentMessage = t.reply,
                         !.i = op.i + 1,
                         !.persona = IF (op.i + 1) % 2 = 0 THEN "A" ELSE "B"]
  IN IF next.i < MAX_TURNS
     THEN [op |-> ChatEnter(next, next.prompts[next.persona],
                            IF next.persona = "A" THEN hA ELSE hB, t.reply),
           issued |-> ChatEnterFetches(o, next.prompts[next.persona],
                                       IF next.persona = "A" THEN hA ELSE hB,
                                       t.reply, op.ctl)]
     ELSE [op |-> Returned(next, NoError), issued |-> <<>>]

\* handleStartConversation after an await (71-100)
ObserverResume(o) ==
  /\ o \in DOMAIN ops
  /\ ops[o].kind = "observer"
  /\ ops[o].pc = "settled"
  /\ LET op == ops[o]
         t == op.turn
         goesOn == t.kind = "resolved" /\ ~ctls[op.ctl]
         shown == IF t.kind = "rejected" THEN ShownFor(t.error, "conversation")
                  ELSE NoError
         after == IF goesOn THEN ObserverNext(op, o)
                  ELSE [op |-> Returned(op, shown), issued |-> <<>>]
     IN /\ ops' = [ops EXCEPT ![o] = after.op]
        /\ fetches' = LiveFetches(ops', fetches \o after.issued)
        /\ messages' = IF goesOn /\ op.mounted
                       THEN Append(messages,
                                   [speaker |-> IF op.i % 2 = 0 THEN "personaA" ELSE "personaB",
                                    content |-> t.value.reply, thinking |-> t.value.thinking])
                       ELSE messages
        /\ errors' = IF t.kind = "rejected" /\ op.mounted
                     THEN [errors EXCEPT !["observer"] = shown] ELSE errors
        /\ isConversing' = IF after.op.pc = "done" THEN FALSE ELSE isConversing
        /\ conversationController' =
             IF after.op.pc = "done" THEN 0 ELSE conversationController
  /\ UNCHANGED <<pipelineVars, appVars, paramVars, ctls, generationController, mode, activeChat,
                 history, isLoading, personaPrompt>>

\* handleSetMode (512-517): the conversation is stopped, and the component of
\* the other mode replaces the mounted one, whose state is dropped
SetMode(newMode) ==
  /\ ~PBusy
  /\ newMode \in {"observer", "chat"}
  /\ newMode # mode
  /\ LET stops == isConversing /\ conversationController # 0
     IN /\ ctls' = IF stops THEN [ctls EXCEPT ![conversationController] = TRUE] ELSE ctls
        /\ fetches' = IF stops THEN AbortFetches(conversationController) ELSE fetches
  /\ mode' = newMode
  /\ history' = [p \in Personas |-> <<>>]
  /\ messages' = <<>>
  /\ errors' = [errors EXCEPT !["chat"] = NoError, !["observer"] = NoError]
  /\ activeChat' = IF newMode = "chat" THEN ActiveChatEffect("A", personaPrompt) ELSE "A"
  /\ ops' = [o \in DOMAIN ops |->
              IF ops[o].kind \in {"chat", "observer"}
              THEN [ops[o] EXCEPT !.mounted = FALSE] ELSE ops[o]]
  /\ UNCHANGED <<pipelineVars, appVars, paramVars, conversationController, generationController,
                 isConversing, isLoading, personaPrompt>>

UserInputs == {<<"q1">>, <<" ">>}

\* The body each request of the persona components can receive
PersonaBodies(stage) ==
  CASE stage = "thinking" -> {[content |-> <<" ", "t2", " ">>]}
    [] stage = "reply" -> {[content |-> <<"<thinking>", "x", "</thinking>", " ", "r2">>]}
    [] stage = "generate" -> Bodies("generate")

InitGen ==
  /\ PipelineIdle
  /\ AppIdle
  /\ philosophyCode = Str(<<"1">>)
  /\ parameterConfig = defaultPersonaParameters
  /\ params = NotCalled
  /\ ComponentsMounted

\* The generation side of PersonaExtraction
NextGen ==
  \/ \E p \in Personas : Generate(p)
  \/ StopGeneration
  \/ \E o \in DOMAIN ops : AfterGenerate(o)
  \/ \E o \in DOMAIN ops : GenerateResume(o)
  \/ \E k \in DOMAIN fetches : \E body \in PersonaBodies(fetches[k].stage) : FetchOk(k, body)
  \/ \E k \in DOMAIN fetches, kind \in {"network", "malformed"} : FetchFail(k, kind)
  \/ \E k \in DOMAIN fetches : FetchHttpError(k)
  \/ \E k \in DOMAIN fetches : ErrorBodyRead(k)

SpecGen == InitGen /\ [][NextGen]_vars

\* The conversation side, from the state in which persona A and persona B have
\* been generated through one generation controller (a state of SpecGen, the
\* logs of the generations left out)
InitChat ==
  /\ PipelineIdle
  /\ AppIdle
  /\ philosophyCode = Str(<<"1">>)
  /\ parameterConfig = defaultPersonaParameters
  /\ params = NotCalled
  /\ ctls = <<FALSE>>
  /\ conversationController = 0
  /\ generationController = 1
  /\ isConversing = FALSE
  /\ mode = "observer"
  /\ activeChat = "A"
  /\ history = [p \in Personas |-> <<>>]
  /\ messages = <<>>
  /\ errors = [e \in ErrorSlots |-> NoError]
  /\ isLoading = [p \in Personas |-> FALSE]
  /\ personaPrompt \in {[p \in Personas |-> IF p = "A" THEN StructuredPrompt ELSE q] :
                           q \in {StructuredPrompt, UnstructuredPrompt}}
  /\ ops = <<>>
  /\ fetches = <<>>

\* A request fails here by a non-2xx response; a rejected fetch or a malformed
\* body is caught by the same catch blocks (NextTurn)
NextChat ==
  \/ \E msg \in UserInputs : SendMessage(msg)
  \/ \E o \in DOMAIN ops : SendMessageResume(o)
  \/ \E p \in Personas : SetActiveChat(p)
  \/ \E topic \in UserInputs : StartConversation(topic)
  \/ \E o \in DOMAIN ops : ObserverResume(o)
  \/ StopConversation
  \/ \E m \in {"observer", "chat"} : SetMode(m)
  \/ \E k \in DOMAIN fetches : \E body \in PersonaBodies(fetches[k].stage) : FetchOk(k, body)
  \/ \E k \in DOMAIN fetches : FetchHttpError(k)
  \/ \E k \in DOMAIN fetches : ErrorBodyRead(k)
  \/ \E o \in DOMAIN ops : AfterThinking(o)
  \/ \E o \in DOMAIN ops : AfterReply(o)

SpecChat == InitChat /\ [][NextChat]_vars

\* Every request settles, and the continuation of a settled await runs
FairChat ==
  /\ WF_vars(\E k \in DOMAIN fetches :
               \E body \in PersonaBodies(fetches[k].stage) : FetchOk(k, body))
  /\ WF_vars(\E k \in DOMAIN fetches : ErrorBodyRead(k))
  /\ WF_vars(\E o \in DOMAIN ops : AfterThinking(o))
  /\ WF_vars(\E o \in DOMAIN ops : AfterReply(o))
  /\ WF_vars(\E o \in DOMAIN ops : ObserverResume(o))
  /\ WF_vars(\E o \in DOMAIN ops : SendMessageResume(o))

SpecChatFair == SpecChat /\ FairChat


\* ---------------------------------------------------------- handleApiError
\* JSON values of an error body: a field is absent, null, a string or an object
Absent == [type |-> "absent"]
JsonNull == [type |-> "null"]
JString(str) == [type |-> "string", s |-> str]
JObject(message, error) == [type |-> "object", message |-> message, error |-> error]

\* value.name as JavaScript reads it: undefined on a string
Field(v, name) == IF v.type = "object" THEN v[name] ELSE Absent
Truthy(v) == (v.type = "string" /\ v.s # "") \/ v.type = "object"

\* JSON.stringify, as a sequence of tokens
RECURSIVE Stringify(_)
Stringify(v) ==
  CASE v.type = "null" -> <<"null">>
    [] v.type = "string" -> <<"\"", v.s, "\"">>
    [] v.type = "object" ->
         LET m == IF v.message.type = "absent" THEN <<>>
                  ELSE <<"\"message\":">> \o Stringify(v.message)
             e == IF v.error.type = "absent" THEN <<>>
                  ELSE <<"\"error\":">> \o Stringify(v.error)
         IN <<"{">> \o m \o (IF m # <<>> /\ e # <<>> THEN <<",">> ELSE <<>>) \o e \o <<"}">>
    [] OTHER -> <<>>

\* The text of a body as response.text() returns it
RawText(body) == IF body.kind = "json" THEN Stringify(body.value) ELSE body.text

\* contentType && contentType.includes("application/json") (55)
IsJsonType(contentType) == \E k \in DOMAIN contentType : contentType[k] = "application/json"

StatusLine(resp) == <<"HTTP Error: ", resp.status, " ", resp.statusText>>

\* Variant: the nested error.message is looked at before the top-level message
handleApiErrorNestedFirst(resp) ==
  LET body == resp.body
      errorJson == body.value
      nested == Field(Field(errorJson, "error"), "message")
      errorMessage ==
        IF body.kind = "unreadable" THEN
          <<"Failed to parse error response. Status: ", resp.status>>
        ELSE IF IsJsonType(resp.contentType) THEN
          IF body.kind # "json" THEN
            <<"Failed to parse error response. Status: ", resp.status>>
          ELSE IF Truthy(errorJson) /\ Truthy(Field(errorJson, "error")) /\ Truthy(nested)
          THEN <<nested.s>>
          ELSE IF Truthy(errorJson) /\ Truthy(Field(errorJson, "message"))
          THEN <<Field(errorJson, "message").s>>
          ELSE <<"Received unexpected JSON error format: ">> \o Stringify(errorJson)
        ELSE
          <<"Received unexpected error format: ">>
            \o (IF RawText(body) # <<>> THEN RawText(body)
                ELSE <<"Empty response from server">>)
  IN [kind |-> "returned", message |-> errorMessage]

\* handleApiError (50-75): the Error it returns
handleApiError(resp) ==
  LET body == resp.body
      errorJson == body.value
      nested == Field(Field(errorJson, "error"), "message")
      errorMessage ==
        IF body.kind = "unreadable" THEN
          <<"Failed to parse error response. Status: ", resp.status>>
        ELSE IF IsJsonType(resp.contentType) THEN
          IF body.kind # "json" THEN
            <<"Failed to parse error response. Status: ", resp.status>>
          ELSE IF Truthy(errorJson) /\ Truthy(Field(errorJson, "message"))
          THEN <<Field(errorJson, "message").s>>
          ELSE IF Truthy(errorJson) /\ Truthy(Field(errorJson, "error")) /\ Truthy(nested)
          THEN <<nested.s>>
          ELSE <<"Received unexpected JSON error format: ">> \o Stringify(errorJson)
        ELSE
          <<"Received unexpected error format: ">>
            \o (IF RawText(body) # <<>> THEN RawText(body)
                ELSE <<"Empty response from server">>)
  IN [kind |-> "returned", message |-> errorMessage]

\* Non-2xx responses: the content-type header (<<>> when there is none), and a
\* body that is JSON, other text, or cannot be read
MessageValues == {Absent, JsonNull, JString(""), JString("m")}
ErrorValues ==
  {Absent, JsonNull, JString("e")} \cup {JObject(m, Absent) : m \in {Absent, JString(""), JString("n")}}
JsonBodies ==
  {[kind |-> "json", value |-> JsonNull, text |-> <<>>]}
    \cup {[kind |-> "json", value |-> JObject(m, e), text |-> <<>>] :
            m \in MessageValues, e \in ErrorValues}
TextBodies ==
  {[kind |-> "text", value |-> Absent, text |-> t] : t \in {<<>>, <<"Bad Gateway">>}}
UnreadableBody == [kind |-> "unreadable", value |-> Absent, text |-> <<>>]
ContentTypes ==
  {<<>>, <<"application/json">>, <<"application/json", "; charset=utf-8">>, <<"text/html">>}
ErrorResponses ==
  [status : {"500"}, statusText : {"", "Internal Server Error"},
   contentType : ContentTypes, body : JsonBodies \cup TextBodies \cup {UnreadableBody}]

InitApiError ==
  /\ PipelineIdle
  /\ PersonaIdle
  /\ response \in ErrorResponses
  /\ apiError = NotCalled
  /\ AppMounted

\* await handleApiError(response)
HandleApiError ==
  /\ apiError = NotCalled
  /\ apiError' = handleApiError(response)
  /\ UNCHANGED <<pipelineVars, personaVars, response, activeTopLevelTab, apiKey,
                 reportVars, comprehensiveVars>>

NextApiError == HandleApiError

SpecApiError == InitApiError /\ [][NextApiError]_vars

\* ------------------------------------------------- App and ReportDisplay
MaxFiles == 2
MaxRuns == 2

\* A file name is a sequence of tokens; a code token is a run of digits and
\* dashes that /^[0-9]+(-[0-9]+)*/ matches whole
CodeTokens == {"1-3", "2", "9"}
First(S) == CHOOSE x \in S : \A y \in S : x <= y

\* file.name.match(/(\[.*?\])|(^[0-9]+(-[0-9]+)*)/) and the brackets taken off
\* (545-546): the leftmost match, the bracketed alternative tried first
ExtractCode(name) ==
  LET opens == {p \in DOMAIN name :
                  name[p] = "[" /\ \E q \in DOMAIN name : q > p /\ name[q] = "]"}
  IN IF name # <<>> /\ name[1] \in CodeTokens
     THEN [matched |-> TRUE, code |-> <<name[1]>>]
     ELSE IF opens # {}
     THEN LET p == First(opens)
              q == First({r \in DOMAIN name : r > p /\ name[r] = "]"})
          IN [matched |-> TRUE,
              code |-> SelectSeq(SubSeq(name, p, q), LAMBDA t : t \notin {"[", "]"})]
     ELSE [matched |-> FALSE, code |-> <<>>]

\* !code: no match, or an empty string
NoCode(m) == ~m.matched \/ m.code = <<>>

\* The entries of philosophyIndex that the files can name
philosophyIndex ==
  {[code |-> <<"1-3">>, name |-> "item 1-3"], [code |-> <<"2">>, name |-> "item 2"]}
Find(c) == {p \in philosophyIndex : p.code = c}

\* The characters of a code token, and the domains that
\* getStructuredAnalysisFromContent takes for a code (93-94)
CodeChars(token) ==
  CASE token = "1-3" -> <<"1", "-", "3">>
    [] OTHER -> <<token>>
DomainsOf(c) == Slice(DOMAIN_DEFINITIONS, 0, Len(SplitDash(CodeChars(c[1]))))

\* Files a user can add: a bracketed code, a leading code, no code, a code that
\* is not in the index, empty brackets, and a file without content
FilePool ==
  {[name |-> <<"[", "1-3", "]", "a.txt">>, content |-> <<"text">>],
   [name |-> <<"2", ".txt">>, content |-> <<"text">>],
   [name |-> <<"notes.txt">>, content |-> <<"text">>],
   [name |-> <<"[", "9", "]", "b.md">>, content |-> <<"text">>],
   [name |-> <<"[", "]", "c.txt">>, content |-> <<"text">>],
   [name |-> <<"[", "2", "]", "e.txt">>, content |-> <<>>]}

\* What the task of one file does before its first await (545-577)
FileCheck(file) ==
  LET m == ExtractCode(file.name)
  IN IF NoCode(m) THEN "no code"
     ELSE IF Find(m.code) = {} THEN "not found"
     ELSE IF file.content = <<>> THEN "empty content"
     ELSE "analysis"

\* baseResult (548-552, 569) spread into a ProcessedFileResult
BaseResult(file) ==
  LET m == ExtractCode(file.name)
      found == IF NoCode(m) THEN {} ELSE Find(m.code)
  IN [fileName |-> file.name,
      code |-> IF NoCode(m) THEN <<"N/A">> ELSE m.code,
      name |-> IF found = {} THEN "Unknown" ELSE (CHOOSE p \in found : TRUE).name,
      status |-> "error", error |-> None, report |-> None,
      analysis |-> FALSE, explained |-> FALSE]
ErrorResult(file, message) == [BaseResult(file) EXCEPT !.error = message]
SuccessResult(file) ==
  [BaseResult(file) EXCEPT !.status = "success", !.report = "generated",
                           !.analysis = TRUE]

\* activeResult: null, or a file name
NoActive == [selected |-> FALSE]
Active(fileName) == [selected |-> TRUE, fileName |-> fileName]

\* Variant: a record for a file name already listed is appended once more
handleProcessingCompleteAppending(prev, newResult) ==
  Append(prev, newResult)

\* handleProcessingComplete (643-661): the updater given to setResults
handleProcessingComplete(prev, newResult) ==
  LET existing == {k \in DOMAIN prev : prev[k].fileName = newResult.fileName}
  IN IF existing # {} THEN [prev EXCEPT ![First(existing)] = newResult]
     ELSE Append(prev, newResult)

\* setActiveResult as the updater calls it (654-658); seen is the activeResult
\* that the callback closed over
ActiveAfter(prev, newResults, seen, current) ==
  IF prev = <<>> \/ seen = NoActive THEN Active(newResults[1].fileName) ELSE current

\* The tasks of one batch up to their first await (544-579), in the order of
\* the map: a file that fails a check reports its error result at once, the
\* others have called getStructuredAnalysisFromContent, which has sent the
\* requests of its first chunk of domains (processInBatches, 148-153)
RECURSIVE RunBatch(_, _, _, _)
RunBatch(acc, fs, k, last) ==
  IF k > last THEN acc
  ELSE LET check == FileCheck(fs[k])
           r == ErrorResult(fs[k], check)
           newResults == handleProcessingComplete(acc.results, r)
       IN IF check = "analysis"
          THEN RunBatch([acc EXCEPT
                 !.pending = @ \cup {k},
                 !.calls = Append(@, [run |-> acc.n, index |-> k,
                                      fileName |-> fs[k].name,
                                      domains |-> Len(DomainsOf(ExtractCode(fs[k].name).code)),
                                      i |-> 0,
                                      inflight |-> {d \in 0..(acc.limit - 1) :
                                        d < Len(DomainsOf(ExtractCode(fs[k].name).code))}])],
                 fs, k + 1, last)
          ELSE RunBatch([acc EXCEPT
                 !.results = newResults,
                 !.active = ActiveAfter(acc.results, newResults, acc.seen, acc.active),
                 !.completions = Append(@, [run |-> acc.n, index |-> k,
                                            fileName |-> fs[k].name,
                                            status |-> "error"])],
                 fs, k + 1, last)

\* One turn of the for loop of startProcessing (540-616) up to its await
Launch(fs, start, limit, n, seen) ==
  LET b == RunBatch([results |-> fileResults, active |-> activeResult, pending |-> {},
                     completions |-> IF start = 0 THEN <<>> ELSE completions,
                     calls |-> IF start = 0 THEN <<>> ELSE analysisCalls,
                     seen |-> seen, n |-> n, limit |-> limit],
                    fs, start + 1, Min(start + limit, Len(fs)))
  IN /\ fileResults' = b.results
     /\ activeResult' = b.active
     /\ completions' = b.completions
     /\ analysisCalls' = b.calls
     /\ run' = [active |-> TRUE, files |-> fs, i |-> start, limit |-> limit,
                pending |-> b.pending, seen |-> seen, n |-> n]

\* The continuation of Promise.allSettled is due: it runs before the next event
AppBusy == run.active /\ run.pending = {}

FileNamesQueued == {files[k].name : k \in DOMAIN files}

\* onDrop (357-387) with one accepted file: a name already queued is filtered out
OnDrop(file) ==
  /\ ~AppBusy
  /\ activeTopLevelTab = "philosophy"
  /\ Len(files) < MaxFiles
  /\ file.name \notin FileNamesQueued
  /\ files' = Append(files, file)
  /\ UNCHANGED <<pipelineVars, personaVars, apiVars, activeTopLevelTab, apiKey,
                 fileResults, activeResult, isProcessing, run, runs, completions,
                 analysisCalls, comprehensiveVars>>

\* startProcessing (525-540) up to the first await; its button is disabled while
\* isProcessing, without files or without an API key (800)
StartProcessing ==
  /\ ~AppBusy
  /\ activeTopLevelTab = "philosophy"
  /\ ~isProcessing
  /\ ~run.active
  /\ runs < MaxRuns
  /\ files # <<>>
  /\ apiKey # ""
  /\ isProcessing' = TRUE
  /\ runs' = runs + 1
  /\ Launch(files, 0, concurrencyLimit, runs + 1, activeResult)
  /\ UNCHANGED <<pipelineVars, personaVars, apiVars, activeTopLevelTab, apiKey, files,
                 comprehensiveVars>>

\* getStructuredAnalysisFromContent settles for the file at position k, and the
\* task of that file reports its result (579-613)
AnalysisSettled(k, ok) ==
  /\ LET file == run.files[k]
         r == IF ok THEN SuccessResult(file) ELSE ErrorResult(file, "analysis failed")
         newResults == handleProcessingComplete(fileResults, r)
     IN /\ fileResults' = newResults
        /\ activeResult' = ActiveAfter(fileResults, newResults, run.seen, activeResult)
        /\ completions' = Append(completions,
             [run |-> run.n, index |-> k, fileName |-> file.name, status |-> r.status])
  /\ run' = [run EXCEPT !.pending = @ \ {k}]

\* The request for domain d of the file at position k settles. A failure
\* rejects processInBatches and with it the analysis of the file; the last
\* success of a chunk starts the next chunk of domains, or resolves the
\* analysis (siliconflowService.ts 116-160, asyncUtils.ts 18-28). The other
\* requests of a rejected analysis settle without effect.
RequestSettled(k, d, ok) ==
  /\ run.active
  /\ k \in run.pending
  /\ LET c == CHOOSE x \in DOMAIN analysisCalls : analysisCalls[x].index = k
         call == analysisCalls[c]
         chunkOpen == call.inflight # {d}
         more == call.i + run.limit < call.domains
     IN /\ d \in call.inflight
        /\ IF ~ok
           THEN /\ analysisCalls' = [analysisCalls EXCEPT ![c].inflight = {}]
                /\ AnalysisSettled(k, FALSE)
           ELSE IF chunkOpen
           THEN /\ analysisCalls' = [analysisCalls EXCEPT ![c].inflight = @ \ {d}]
                /\ UNCHANGED <<fileResults, activeResult, completions, run>>
           ELSE IF more
           THEN /\ analysisCalls' = [analysisCalls EXCEPT
                     ![c].i = @ + run.limit,
                     ![c].inflight = {e \in (call.i + run.limit)..(call.i + 2 * run.limit - 1) :
                                        e < call.domains}]
                /\ UNCHANGED <<fileResults, activeResult, completions, run>>
           ELSE /\ analysisCalls' = [analysisCalls EXCEPT ![c].inflight = {}]
                /\ AnalysisSettled(k, TRUE)
  /\ UNCHANGED <<pipelineVars, personaVars, apiVars, activeTopLevelTab, apiKey, files,
                 isProcessing, runs, comprehensiveVars>>

\* Variant: the loop gives up after a batch in which a file failed
AllSettledStopOnError ==
  /\ AppBusy
  /\ IF /\ run.i + run.limit < Len(run.files)
        /\ \A c \in DOMAIN completions : completions[c].status # "error"
     THEN /\ Launch(run.files, run.i + run.limit, run.limit, run.n, run.seen)
          /\ UNCHANGED isProcessing
     ELSE /\ run' = NoRun
          /\ isProcessing' = FALSE
          /\ UNCHANGED <<fileResults, activeResult, completions, analysisCalls>>
  /\ UNCHANGED <<pipelineVars, personaVars, apiVars, activeTopLevelTab, apiKey, files,
                 runs, comprehensiveVars>>

\* After Promise.allSettled (616-620): the next batch, or the end of the run
AllSettled ==
  /\ AppBusy
  /\ IF run.i + run.limit < Len(run.files)
     THEN /\ Launch(run.files, run.i + run.limit, run.limit, run.n, run.seen)
          /\ UNCHANGED isProcessing
     ELSE /\ run' = NoRun
          /\ isProcessing' = FALSE
          /\ UNCHANGED <<fileResults, activeResult, completions, analysisCalls>>
  /\ UNCHANGED <<pipelineVars, personaVars, apiVars, activeTopLevelTab, apiKey, files,
                 runs, comprehensiveVars>>

\* Reports a user can load: the title line names a code and a name (398-408)
ReportPool ==
  {[name |-> <<"[", "9", "]", "b.md">>, code |-> <<"9">>, itemName |-> "item 9"]}

\* onDropReport (398-432) with one accepted file whose title line parses
OnDropReport(file) ==
  /\ ~AppBusy
  /\ activeTopLevelTab = "philosophy"
  /\ LET r == [fileName |-> file.name, code |-> file.code, name |-> file.itemName,
               status |-> "success", error |-> None, report |-> "loaded",
               analysis |-> FALSE, explained |-> FALSE]
         newResults == handleProcessingComplete(fileResults, r)
     IN /\ fileResults' = newResults
        /\ activeResult' = ActiveAfter(fileResults, newResults, activeResult, activeResult)
  /\ UNCHANGED <<pipelineVars, personaVars, apiVars, activeTopLevelTab, apiKey, files,
                 isProcessing, run, runs, completions, analysisCalls,
                 comprehensiveVars>>

\* handleAddContextualExplanation (653-676) for a concept of the active result
AddContextualExplanation ==
  /\ ~AppBusy
  /\ activeTopLevelTab = "philosophy"
  /\ activeResult.selected
  /\ \E k \in DOMAIN fileResults :
       /\ fileResults[k].fileName = activeResult.fileName
       /\ fileResults[k].analysis
       /\ ~fileResults[k].explained
       /\ Find(fileResults[k].code) # {}
       /\ LET r == [fileResults[k] EXCEPT !.explained = TRUE, !.report = "generated"]
              newResults == handleProcessingComplete(fileResults, r)
          IN /\ fileResults' = newResults
             /\ activeResult' =
                  ActiveAfter(fileResults, newResults, activeResult, activeResult)
  /\ UNCHANGED <<pipelineVars, personaVars, apiVars, activeTopLevelTab, apiKey, files,
                 isProcessing, run, runs, completions, analysisCalls,
                 comprehensiveVars>>

\* -------------------------------------------------- ComprehensiveAnalysis
\* A title is a sequence of tokens: a keyword is a token longer than one
\* character that is not a number (283-286)
KeywordTokens == {"ab", "cd"}
Titles == {<<>>, <<"ab", " ", "cd">>, <<"12", " ", "a">>}
TextContents == {<<>>, <<" ">>, <<"text">>}
ExtractKeywords(t) == {t[k] : k \in DOMAIN t} \cap KeywordTokens

\* handleTitleChange (279-290)
SetTitle(t) ==
  /\ ~AppBusy
  /\ activeTopLevelTab = "comprehensive"
  /\ t # title
  /\ title' = t
  /\ selectedKeywords' = ExtractKeywords(t)
  /\ UNCHANGED <<pipelineVars, personaVars, apiVars, activeTopLevelTab, apiKey,
                 reportVars, textContent, compLoading, compError, compCalls>>

\* The text area is edited
SetTextContent(x) ==
  /\ ~AppBusy
  /\ activeTopLevelTab = "comprehensive"
  /\ x # textContent
  /\ textContent' = x
  /\ UNCHANGED <<pipelineVars, personaVars, apiVars, activeTopLevelTab, apiKey,
                 reportVars, title, selectedKeywords, compLoading, compError, compCalls>>

\* toggleKeyword (292-302) on one of the extracted keywords
ToggleKeyword(k) ==
  /\ ~AppBusy
  /\ activeTopLevelTab = "comprehensive"
  /\ k \in ExtractKeywords(title)
  /\ selectedKeywords' = IF k \in selectedKeywords THEN selectedKeywords \ {k}
                         ELSE selectedKeywords \cup {k}
  /\ UNCHANGED <<pipelineVars, personaVars, apiVars, activeTopLevelTab, apiKey,
                 reportVars, title, textContent, compLoading, compError, compCalls>>

\* Variant: the request is made without looking at the API key
StartAnalysisUnchecked ==
  /\ ~AppBusy
  /\ activeTopLevelTab = "comprehensive"
  /\ ~compLoading
  /\ title # <<>> /\ textContent # <<>> /\ selectedKeywords # {}
  /\ Len(compCalls) < MaxRuns
  /\ IF Trim(title) = <<>> \/ Trim(textContent) = <<>> \/ selectedKeywords = {}
     THEN /\ compError' = "fields empty"
          /\ UNCHANGED <<compLoading, compCalls>>
     ELSE /\ compLoading' = TRUE
          /\ compError' = None
          /\ compCalls' = Append(compCalls, [keywords |-> selectedKeywords,
                                             status |-> "pending"])
  /\ UNCHANGED <<pipelineVars, personaVars, apiVars, activeTopLevelTab, apiKey,
                 reportVars, title, textContent, selectedKeywords>>

\* handleStartAnalysis (304-332) up to its await; its button is disabled while
\* loading and without a title, a text or a selected keyword (473)
StartAnalysis ==
  /\ ~AppBusy
  /\ activeTopLevelTab = "comprehensive"
  /\ ~compLoading
  /\ title # <<>> /\ textContent # <<>> /\ selectedKeywords # {}
  /\ Len(compCalls) < MaxRuns
  /\ IF Trim(title) = <<>> \/ Trim(textContent) = <<>> \/ selectedKeywords = {}
     THEN /\ compError' = "fields empty"
          /\ UNCHANGED <<compLoading, compCalls>>
     ELSE IF apiKey = ""
     THEN /\ compError' = "no api key"
          /\ UNCHANGED <<compLoading, compCalls>>
     ELSE /\ compLoading' = TRUE
          /\ compError' = None
          /\ compCalls' = Append(compCalls, [keywords |-> selectedKeywords,
                                             status |-> "pending"])
  /\ UNCHANGED <<pipelineVars, personaVars, apiVars, activeTopLevelTab, apiKey,
                 reportVars, title, textContent, selectedKeywords>>

\* performComprehensiveAnalysis settles and handleStartAnalysis resumes (333-352)
ComprehensiveSettled(ok) ==
  /\ ~AppBusy
  /\ compCalls # <<>>
  /\ compCalls[Len(compCalls)].status = "pending"
  /\ compCalls' = [compCalls EXCEPT ![Len(compCalls)].status =
                      IF ok THEN "resolved" ELSE "rejected"]
  /\ compLoading' = FALSE
  /\ compError' = IF ok THEN compError ELSE "analysis failed"
  /\ UNCHANGED <<pipelineVars, personaVars, apiVars, activeTopLevelTab, apiKey,
                 reportVars, title, textContent, selectedKeywords>>

\* App with one of its top-level tabs open and the component of that tab
\* mounted, before or after an API key was entered in the settings
InitApp ==
  /\ PipelineAtRest
  /\ concurrencyLimit \in 1..MaxLimit
  /\ PersonaIdle
  /\ ApiIdle
  /\ activeTopLevelTab \in {"philosophy", "comprehensive"}
  /\ apiKey \in {"", "key"}
  /\ AppAtRest

NextApp ==
  \/ \E file \in FilePool : OnDrop(file)
  \/ StartProcessing
  \/ \E k \in 1..MaxFiles, d \in 0..(Len(DOMAIN_DEFINITIONS) - 1), ok \in BOOLEAN :
       RequestSettled(k, d, ok)
  \/ AllSettled
  \/ \E file \in ReportPool : OnDropReport(file)
  \/ AddContextualExplanation
  \/ \E t \in Titles : SetTitle(t)
  \/ \E x \in TextContents : SetTextContent(x)
  \/ \E k \in KeywordTokens : ToggleKeyword(k)
  \/ StartAnalysis
  \/ \E ok \in BOOLEAN : ComprehensiveSettled(ok)

SpecApp == InitApp /\ [][NextApp]_vars

\* ------------------------------------------------ claims: processInBatches
RunReqs == {k \in DOMAIN reqs : reqs[k].round = caller}
ChunkOf(idx) == idx \div batchSize
BatchEvents == SelectSeq(trace, LAMBDA e : e.ev = "batch" /\ e.round = caller)
\* The least t with t * batchSize >= Len(items)
ExpectedBatches ==
  CHOOSE t \in 0..Len(items) :
    t * batchSize >= Len(items) /\ (t = 0 \/ (t - 1) * batchSize < Len(items))

\* C1: when every processor call resolves, processInBatches resolves with exactly
\* one result per item, result k being the value of the call made for item k
\* (with its original index), whatever the completion order inside a chunk.
C1_OrderPreserved ==
  /\ promise.kind = "resolved" =>
       /\ Len(promise.value) = Len(items)
       /\ \A k \in 1..Len(items) : \E r \in RunReqs :
            /\ reqs[r].index = k - 1
            /\ reqs[r].item = items[k]
            /\ reqs[r].status = "resolved"
            /\ promise.value[k] = reqs[r].value
  /\ ( /\ bpc \notin {"loop", "resume"}
       /\ Cardinality(RunReqs) = Len(items)
       /\ \A r \in RunReqs : reqs[r].status = "resolved" )
     => promise.kind = "resolved"

\* C1 witness: a run resolved although the last chunk completed in reverse order
\* and its two values differ.
C1_Witness ==
  /\ pc = "direct"
  /\ promise.kind = "resolved"
  /\ Len(chunkDone) >= 2
  /\ chunkDone[1] > chunkDone[2]
  /\ promise.value[chunkDone[1] + 1] # promise.value[chunkDone[2] + 1]

\* C2: at most batchSize processor calls are pending at any moment, and a call of
\* a later chunk exists only when every call of each earlier chunk has resolved.
C2_BoundedConcurrency ==
  /\ Cardinality({r \in RunReqs : reqs[r].status = "pending"}) <= batchSize
  /\ \A a, b \in RunReqs :
       ChunkOf(reqs[a].index) < ChunkOf(reqs[b].index) => reqs[a].status = "resolved"

\* C2 witness: a full chunk of two is pending after an earlier chunk was completed.
C2_Witness ==
  /\ pc = "direct"
  /\ batchSize = 2
  /\ Cardinality({r \in RunReqs : reqs[r].status = "pending"}) = 2
  /\ \E r \in RunReqs : reqs[r].index >= batchSize /\ reqs[r].status = "pending"

\* C3: once a processor call has rejected, the run is rejected (no result value,
\* whatever earlier chunks and siblings produced) and no call of a later chunk
\* is ever started.
C3_FailFast ==
  \A a \in RunReqs : reqs[a].status = "rejected" =>
    /\ bpc = "rejected"
    /\ promise.kind = "rejected"
    /\ "value" \notin DOMAIN promise
    /\ \A b \in RunReqs : ChunkOf(reqs[b].index) <= ChunkOf(reqs[a].index)

\* C3 witness: the second chunk failed after the first chunk's results were kept
\* locally and a sibling resolved, with items left that were never started.
C3_Witness ==
  /\ pc = "direct"
  /\ promise.kind = "rejected"
  /\ results # <<>>
  /\ Cardinality(RunReqs) < Len(items)
  /\ \E a, b \in RunReqs :
       /\ ChunkOf(reqs[a].index) = ChunkOf(reqs[b].index)
       /\ reqs[a].status = "rejected"
       /\ reqs[b].status = "resolved"

\* C4: onBatchStart is called with indices 1, 2, ... and the same total
\* ceil(n/b) each time, never more than ceil(n/b) times and exactly that often
\* when the run resolves (never for n = 0), and before every processor call of
\* its chunk.
C4_OnBatchStart ==
  hasOnBatchStart =>
    /\ Len(BatchEvents) <= ExpectedBatches
    /\ \A k \in 1..Len(BatchEvents) :
         /\ BatchEvents[k].batchIndex = k
         /\ BatchEvents[k].totalBatches = ExpectedBatches
    /\ promise.kind = "resolved" => Len(BatchEvents) = ExpectedBatches
    /\ \A p \in DOMAIN trace :
         (trace[p].ev = "call" /\ trace[p].round = caller) =>
           \E q \in 1..(p - 1) :
             /\ trace[q].ev = "batch"
             /\ trace[q].round = caller
             /\ trace[q].batchIndex = ChunkOf(trace[p].index) + 1

\* C4 witness: a resolved run whose last chunk is not full, announced in two batches.
C4_Witness ==
  /\ pc = "direct"
  /\ hasOnBatchStart
  /\ promise.kind = "resolved"
  /\ Len(items) % batchSize # 0
  /\ Len(BatchEvents) >= 2

\* ------------------------------------ claims: performComprehensiveAnalysis
RoundReqs(round) == {r \in DOMAIN reqs : reqs[r].round = round}
ReqOf(round, idx) == CHOOSE r \in RoundReqs(round) : reqs[r].index = idx
PipelineChunk(r) == reqs[r].index \div concurrencyLimit
Round0Failed == reqs # <<>> /\ reqs[1].round = "round0" /\ reqs[1].status = "rejected"
Round1Complete ==
  \A k \in 1..Len(keywords) : \E r \in RoundReqs("round1") :
    reqs[r].index = k - 1 /\ reqs[r].item = keywords[k] /\ reqs[r].status = "resolved"

\* C5: a Round-1 request exists only once the single Round-0 request has settled
\* (fulfilled or failed), and a Round-2 request exists only once the Round-1
\* request of every keyword has resolved.
C5_RoundSequencing ==
  /\ Cardinality(RoundReqs("round0")) <= 1
  /\ RoundReqs("round1") # {} =>
       /\ reqs[1].round = "round0"
       /\ reqs[1].status \in {"resolved", "rejected"}
  /\ RoundReqs("round2") # {} =>
       /\ Round1Complete
       /\ \A r \in RoundReqs("round1") : reqs[r].status = "resolved"

\* C5 witness: on the degraded path (Round 0 failed) Round 2 has been reached
\* after a Round 1 of two keywords.
C5_Witness ==
  /\ Round0Failed
  /\ Len(keywords) = 2
  /\ \E r \in RoundReqs("round2") : reqs[r].status = "pending"

\* C6: when the Round-0 request failed (any failure kind), the pipeline goes on to
\* Round 1 and is rejected only if a Round-1 or Round-2 request rejected; unless
\* one does, Round 1 runs for every keyword; every Round-1 and Round-2 prompt
\* carries the failure placeholder as document summary, and the placeholder is the
\* preliminarySummary returned.
C6_Round0Degrades ==
  Round0Failed =>
    LET placeholder == FailurePlaceholder(reqs[1].value.kind)
        laterReqs == RoundReqs("round1") \cup RoundReqs("round2")
    IN /\ pc # "round0"
       /\ preliminarySummary = placeholder
       /\ \A r \in laterReqs : reqs[r].prompt.documentSummary = placeholder
       /\ ret.kind = "rejected" => \E r \in laterReqs : reqs[r].status = "rejected"
       /\ (~Busy /\ \A r \in RoundReqs("round1") : reqs[r].status = "resolved")
            => Round1Complete
       /\ ret.kind = "resolved" =>
            /\ ret.value.preliminarySummary = placeholder
            /\ Round1Complete

\* C6 witness: Round 0 returned malformed JSON, yet the pipeline resolved after a
\* Round 2.
C6_Witness ==
  /\ Round0Failed
  /\ reqs[1].value.kind = "malformed"
  /\ ret.kind = "resolved"
  /\ RoundReqs("round2") # {}

\* C7: once a Round-1 or Round-2 request has rejected, the pipeline never resolves
\* (it is rejected as soon as the pending continuations have run), no request of a
\* later chunk of that round exists, and after a Round-1 failure no Round-2
\* request exists.
C7_PipelineFailFast ==
  \A a \in RoundReqs("round1") \cup RoundReqs("round2") :
    reqs[a].status = "rejected" =>
      /\ ret.kind # "resolved"
      /\ ~Busy => ret.kind = "rejected" /\ pc = "rejected"
      /\ \A b \in RoundReqs(reqs[a].round) : PipelineChunk(b) <= PipelineChunk(a)
      /\ reqs[a].round = "round1" => RoundReqs("round2") = {}

\* C7 witness: a Round-2 request of keyword X failed; a Round-2 request of
\* keyword Y resolved with a secondary concept, which the caller never sees.
C7_Witness ==
  /\ ret.kind = "rejected"
  /\ \E a, b \in RoundReqs("round2") :
       /\ reqs[a].status = "rejected"
       /\ reqs[a].item.keyword = "X"
       /\ reqs[b].status = "resolved"
       /\ reqs[b].item.keyword = "Y"
       /\ reqs[b].value.data # <<>>

\* The number of primary concepts Round 1 returned for the first n keywords
RECURSIVE PrimaryCount(_)
PrimaryCount(n) ==
  IF n = 0 THEN 0
  ELSE PrimaryCount(n - 1) + Len(reqs[ReqOf("round1", n - 1)].value.data)

Round2BatchEvents == {p \in DOMAIN trace : trace[p].ev = "batch" /\ trace[p].round = "round2"}

\* C8: when the pipeline resolves, there is exactly one Round-2 request for each
\* primary concept of each keyword and no other Round-2 request; and when Round 1
\* returned no primary concept, the pipeline resolves without any Round-2 request
\* or Round-2 batch callback.
C8_Round2Requests ==
  /\ ret.kind = "resolved" =>
       /\ Cardinality(RoundReqs("round2")) = PrimaryCount(Len(keywords))
       /\ \A r1 \in RoundReqs("round1") : \A j \in 1..Len(reqs[r1].value.data) :
            Cardinality({r \in RoundReqs("round2") :
                           reqs[r].item = [concept |-> reqs[r1].value.data[j],
                                           keyword |-> reqs[r1].item]}) = 1
  /\ ( /\ Round1Complete
       /\ PrimaryCount(Len(keywords)) = 0
       /\ ~Busy )
     => /\ ret.kind = "resolved"
        /\ RoundReqs("round2") = {}
        /\ Round2BatchEvents = {}

\* C8 witness: X returned one primary concept and Y two; the pipeline resolved
\* after exactly three Round-2 requests.
C8_Witness ==
  /\ ret.kind = "resolved"
  /\ keywords = <<"X", "Y">>
  /\ Len(reqs[ReqOf("round1", 0)].value.data) = 1
  /\ Len(reqs[ReqOf("round1", 1)].value.data) = 2
  /\ Cardinality(RoundReqs("round2")) = 3

\* The outputs of the first n Round-2 requests that belong to keyword kw,
\* concatenated in request order
RECURSIVE SecondaryOutputs(_, _)
SecondaryOutputs(kw, n) ==
  IF n = 0 THEN <<>>
  ELSE LET r == ReqOf("round2", n - 1)
       IN SecondaryOutputs(kw, n - 1)
            \o (IF reqs[r].item.keyword = kw THEN reqs[r].value.data ELSE <<>>)

Round2Of(kw) == {r \in RoundReqs("round2") : reqs[r].item.keyword = kw}

\* C9 as stated: on success every keyword's entry has a secondary list equal to
\* the concatenation of the outputs of its Round-2 requests, and its primary list
\* is its Round-1 list.
C9_Original ==
  ret.kind = "resolved" =>
    \A k \in 1..Len(keywords) :
      LET entry == ret.value.results[keywords[k]]
      IN /\ entry.primary = reqs[ReqOf("round1", k - 1)].value.data
         /\ "secondary" \in DOMAIN entry
         /\ entry.secondary =
              SecondaryOutputs(keywords[k], Cardinality(RoundReqs("round2")))

\* C9 (amended): on success every keyword has an entry whose primary list is its
\* Round-1 list; a keyword with at least one primary concept has a secondary list
\* equal to the concatenation, in request order, of the outputs of all its
\* Round-2 requests; a keyword with no primary concept has no secondary field.
C9_Accumulation ==
  ret.kind = "resolved" =>
    /\ DOMAIN ret.value.results = {keywords[k] : k \in 1..Len(keywords)}
    /\ \A k \in 1..Len(keywords) :
         LET entry == ret.value.results[keywords[k]]
         IN /\ entry.primary = reqs[ReqOf("round1", k - 1)].value.data
            /\ IF Round2Of(keywords[k]) # {}
               THEN /\ "secondary" \in DOMAIN entry
                    /\ entry.secondary =
                         SecondaryOutputs(keywords[k], Cardinality(RoundReqs("round2")))
               ELSE DOMAIN entry = {"primary"}

\* C9 witness: a keyword with two primary concepts, each of which produced a
\* secondary concept, next to a keyword with none.
C9_Witness ==
  /\ ret.kind = "resolved"
  /\ \E k \in 1..Len(keywords) :
       /\ Cardinality(Round2Of(keywords[k])) = 2
       /\ \A r \in Round2Of(keywords[k]) : reqs[r].value.data # <<>>
       /\ Len(ret.value.results[keywords[k]].secondary) = 2
  /\ \E k \in 1..Len(keywords) : Round2Of(keywords[k]) = {}

\* ------------------------------ claims: getStructuredAnalysisFromContent
\* The number of dash-separated segments: one more than the number of dashes
SegmentCount == Cardinality({p \in DOMAIN code : code[p] = "-"}) + 1

\* C10: for a code of k segments, 1 <= k <= 4, never more than k requests are
\* issued; when the call resolves exactly k were, the j-th for the j-th domain of
\* the fixed order, and the analysis has exactly the keys of those k domains.
C10_DomainRequests ==
  SegmentCount \in 1..4 =>
    /\ Len(reqs) <= SegmentCount
    /\ \A j \in DOMAIN reqs :
         /\ reqs[j].round = "domains"
         /\ reqs[j].index = j - 1
         /\ reqs[j].item = DOMAIN_DEFINITIONS[j]
         /\ reqs[j].prompt.domainKey = DOMAIN_DEFINITIONS[j].key
    /\ ret.kind = "resolved" =>
         /\ Len(reqs) = SegmentCount
         /\ DOMAIN ret.value.analysis =
              {DOMAIN_DEFINITIONS[j].key : j \in 1..SegmentCount}

\* C10 witness: a two-segment code resolved with two requests and two populated
\* keys.
C10_Witness ==
  /\ ret.kind = "resolved"
  /\ SegmentCount = 2
  /\ Len(reqs) = 2
  /\ \A key \in DOMAIN ret.value.analysis : ret.value.analysis[key] # <<>>

\* The domain requests that have failed so far
FailedDomains == {r \in DOMAIN reqs : reqs[r].round = "domains" /\ reqs[r].status = "rejected"}

\* C11: once the request of any applicable domain has failed, the call never
\* resolves; as soon as its continuations have run it is rejected with an error
\* of the domain stage that names a failed domain and carries its cause, and the
\* rejection holds no analysis, whatever the other domains returned.
C11_DomainFailure ==
  FailedDomains # {} =>
    /\ ret.kind # "resolved"
    /\ pc # "resolved"
    /\ ~Busy =>
         /\ ret.kind = "rejected"
         /\ DOMAIN ret = {"kind", "error"}
         /\ ret.error.stage = "domains"
         /\ \E r \in FailedDomains :
              /\ ret.error.name = reqs[r].item.name
              /\ ret.error.cause = reqs[r].value.cause

\* C11 witness: the second domain's request failed after the first domain's
\* request had resolved with concepts; the call is rejected naming the second.
C11_Witness ==
  /\ ret.kind = "rejected"
  /\ Len(reqs) >= 2
  /\ reqs[1].status = "resolved"
  /\ reqs[1].value.concepts # <<>>
  /\ reqs[2].status = "rejected"
  /\ ret.error.name = DOMAIN_DEFINITIONS[2].name

\* ----------------------------------------- claims: getEffectiveParameters
\* Lengths n such that the first n characters of the code are whole segments
\* (the code ends there or a dash follows) and are a key of the configuration
MatchingPrefixes ==
  {n \in 1..Len(philosophyCode.str) :
     /\ (n = Len(philosophyCode.str) \/ philosophyCode.str[n + 1] = "-")
     /\ philosophyCode.str[n] # "-"
     /\ SubSeq(philosophyCode.str, 1, n) \in DOMAIN parameterConfig}

LongestMatch == CHOOSE n \in MatchingPrefixes : \A k \in MatchingPrefixes : k <= n

\* C12: with "default" a key of the configuration, the call returns the entry of
\* the longest whole-segment prefix of the code that is a key, the "default"
\* entry when there is none or the code is empty or absent; what it returns is
\* always an entry of the configuration, which the call leaves as it was.
C12_LongestPrefix ==
  [][ (params = NotCalled /\ params' # NotCalled) =>
        /\ params' = IF MatchingPrefixes = {}
                     THEN parameterConfig[DefaultKey]
                     ELSE parameterConfig[SubSeq(philosophyCode.str, 1, LongestMatch)]
        /\ \E k \in DOMAIN parameterConfig : params' = parameterConfig[k]
        /\ parameterConfig' = parameterConfig ]_vars

\* C12 witness: the code 1-3-4 under a configuration with the keys 1 and 1-3
\* returned the entry of 1-3.
C12_Witness ==
  /\ philosophyCode = Str(<<"1", "-", "3", "-", "4">>)
  /\ {<<"1">>, <<"1", "-", "3">>} \subseteq DOMAIN parameterConfig
  /\ params = defaultPersonaParameters[<<"1", "-", "3">>]

\* ------------------------------------------------ claims: chatWithPersona
\* The thinking request that precedes reply request k in the same call
ThinkingOf(k) == k - 1

\* maxHistoryTurns of the entry the call uses
KeptTurns == getEffectiveParameters(philosophyCode, parameterConfig).maxHistoryTurns

\* C13: a reply request exists only when the thinking request of the same turn
\* has succeeded, and its last-but-one message is an assistant message holding
\* the (trimmed) thinking output; when the thinking request has failed or was
\* aborted no reply request is issued and the turn is rejected.
C13_ReplyAfterThinking ==
  /\ \A k \in DOMAIN fetches : fetches[k].stage = "reply" =>
       /\ ThinkingOf(k) \in DOMAIN fetches
       /\ fetches[ThinkingOf(k)].stage = "thinking"
       /\ fetches[ThinkingOf(k)].op = fetches[k].op
       /\ fetches[ThinkingOf(k)].status = "ok"
       /\ fetches[k].messages[Len(fetches[k].messages) - 1] =
            [role |-> "assistant", content |-> Trim(fetches[ThinkingOf(k)].body.content)]
  /\ \A k \in DOMAIN fetches :
       (fetches[k].stage = "thinking" /\ fetches[k].status \in {"failed", "aborted"}) =>
         /\ ~\E r \in DOMAIN fetches : fetches[r].stage = "reply" /\ fetches[r].op = fetches[k].op
         /\ ~PBusy => ops[fetches[k].op].turn.kind = "rejected"

\* C13 witness: the thinking request returned padded content and the reply
\* request that followed carries it trimmed.
C13_Witness ==
  /\ Len(fetches) = 2
  /\ fetches[1].body.content = <<" ", "t2", " ">>
  /\ fetches[2].stage = "reply"
  /\ fetches[2].messages[Len(fetches[2].messages) - 1].content = <<"t2">>

\* C15: with maxHistoryTurns = m >= 1 and a history of h messages, the reply
\* request is the system message, the last min(h, 2m) history messages in their
\* order, the new user message, and the two context messages.
C15_ReplyWindow ==
  \A k \in DOMAIN fetches : fetches[k].stage = "reply" =>
    LET h == ops[fetches[k].op].historyArg
        n == Min(Len(h), 2 * KeptTurns)
        msgs == fetches[k].messages
    IN /\ KeptTurns >= 1
       /\ Len(msgs) = n + 4
       /\ msgs[1] = SystemMessage
       /\ \A j \in 1..n :
            /\ msgs[1 + j].content = h[Len(h) - n + j].content
            /\ msgs[1 + j].role = IF h[Len(h) - n + j].role = "model"
                                  THEN "assistant" ELSE "user"
       /\ msgs[n + 2] = [role |-> "user", content |-> ops[fetches[k].op].message]

\* C15 witness: maxHistoryTurns 2 and a history of 6: the reply request holds
\* the last 4 history messages.
C15_Witness ==
  /\ Len(fetches) = 2
  /\ KeptTurns = 2
  /\ Len(ops[1].historyArg) = 6
  /\ Len(fetches[2].messages) = 8
  /\ fetches[2].messages[2].content = <<"h3">>

\* The thinking request holds exactly the last n messages of the history
ThinkingHolds(k, n) ==
  LET h == ops[fetches[k].op].historyArg
      msgs == fetches[k].messages
  IN /\ Len(msgs) = n + 2
     /\ msgs[1] = SystemMessage
     /\ \A j \in 1..n : msgs[1 + j].content = h[Len(h) - n + j].content

\* C16 as stated: the thinking request holds the last min(h, 4) messages of the
\* history, whatever maxHistoryTurns is.
C16_Original ==
  \A k \in DOMAIN fetches : fetches[k].stage = "thinking" =>
    ThinkingHolds(k, Min(Len(ops[fetches[k].op].historyArg), 4))

\* C16 amended: the thinking request holds the last min(h, 4, 2m) messages of
\* the history: the window of 4 is cut from the messages kept for the reply, so
\* it is 4 for every maxHistoryTurns >= 2 and 2 for maxHistoryTurns = 1.
C16_ThinkingWindow ==
  \A k \in DOMAIN fetches : fetches[k].stage = "thinking" =>
    ThinkingHolds(k, Min(Min(Len(ops[fetches[k].op].historyArg), 4), 2 * KeptTurns))

\* C16 witness: maxHistoryTurns 1 and a history of 6: the thinking request holds
\* 2 history messages.
C16_Witness ==
  /\ Len(fetches) >= 1
  /\ KeptTurns = 1
  /\ Len(ops[1].historyArg) = 6
  /\ Len(fetches[1].messages) = 4
  /\ fetches[1].messages[2].content = <<"h5">>

\* C17: a call whose signal was aborted before it settled, with a request
\* issued, is rejected with the AbortError itself; a call rejected after a
\* failed request is rejected with the failure of that stage, and a call is
\* rejected with the AbortError only when its signal is aborted.
C17_AbortIsAbort ==
  \A o \in DOMAIN ops : (ops[o].kind = "direct" /\ ops[o].pc = "settled") =>
    /\ (ctls[ops[o].ctl] /\ fetches # <<>>) => ops[o].turn = Rejected(AbortError)
    /\ (ops[o].turn.kind = "rejected" /\ ops[o].turn.error = AbortError)
         => ctls[ops[o].ctl]
    /\ \A k \in DOMAIN fetches : fetches[k].status = "failed" =>
         ops[o].turn = Rejected(StageFailure(fetches[k].stage, fetches[k].cause))

\* ------------------------------------------- claims: the persona components
ConversationOps == {o \in DOMAIN ops : ops[o].kind \in {"chat", "observer"}}
GenerationOps == {o \in DOMAIN ops : ops[o].kind = "generate"}

\* C14: when a chat turn ends rejected (failed or aborted) in the mounted chat
\* component, the persona's history is what it was before the turn, without the
\* user message of that turn.
C14_HistoryCommit ==
  [][ \A o \in DOMAIN ops :
        ( /\ ops[o].kind = "chat"
          /\ ops[o].pc = "settled"
          /\ ops[o].turn.kind = "rejected"
          /\ ops[o].mounted
          /\ ops'[o].pc = "done" )
        => history'[ops[o].persona] = ops[o].before ]_vars

\* C18: a stopped operation of a mounted component has shown the 'stopped by
\* user' message, and one that failed otherwise has shown the message of its own
\* failure.
C18_StopShown ==
  \A o \in DOMAIN ops : (ops[o].pc = "done" /\ ops[o].mounted) =>
    /\ ctls[ops[o].ctl] =>
         ops[o].outcome = StoppedMessage(IF ops[o].kind = "generate" THEN "generate"
                                         ELSE "conversation")
    /\ (ops[o].turn.kind = "rejected" /\ ~ctls[ops[o].ctl]) =>
         ops[o].outcome = FailureMessage(ops[o].turn.error)

C20_OneGeneration ==
  Cardinality({o \in GenerationOps : InFlight(o)}) <= 1

\* C21: a step issues a request only on a controller that is not aborted, and
\* an observer dialogue whose controller is aborted starts no further half-turn.
C21_NoRequestAfterAbort ==
  [][ /\ \A k \in DOMAIN fetches' : k > Len(fetches) =>
           /\ fetches'[k].signal = ops'[fetches'[k].op].ctl
           /\ ~ctls'[fetches'[k].signal]
      /\ \A o \in DOMAIN ops :
           (ops[o].kind = "observer" /\ ctls[ops[o].ctl]) => ops'[o].i <= ops[o].i
    ]_vars

\* C21 witness: the turn of an observer dialogue has been rejected by the abort
\* of its controller, and the handler is about to resume.
C21_Witness ==
  \E o \in DOMAIN ops :
    /\ ops[o].kind = "observer"
    /\ ctls[ops[o].ctl]
    /\ ops[o].pc = "settled"
    /\ ops[o].turn = Rejected(AbortError)

\* C22: every request of the analysis pipelines carries a cancellation signal.
C22_SignalCarried ==
  \A k \in DOMAIN reqs : reqs[k].signal.defined

\* C23: half-turn i of an observer dialogue is a call with the prompt of persona
\* A when i is even and of persona B when i is odd; half-turn 0 receives the
\* initial topic, and half-turn i+1 starts only from a resolved half-turn i and
\* receives exactly its reply.
C23_Alternation ==
  [][ \A o \in DOMAIN ops' :
        (ops'[o].kind = "observer" /\ ops'[o].pc # "done") =>
          /\ ops'[o].persona = (IF ops'[o].i % 2 = 0 THEN "A" ELSE "B")
          /\ ops'[o].prompt = ops'[o].prompts[ops'[o].persona]
          /\ IF o \notin DOMAIN ops
             THEN /\ ops'[o].i = 0
                  /\ ops'[o].message = messages'[1].content
             ELSE IF ops'[o].i = ops[o].i
             THEN ops'[o].message = ops[o].message
             ELSE /\ ops'[o].i = ops[o].i + 1
                  /\ ops[o].turn.kind = "resolved"
                  /\ ops'[o].message = ops[o].turn.value.reply
    ]_vars

\* C23 witness: persona A speaks for the second time, in half-turn 2.
C23_Witness ==
  \E o \in DOMAIN ops :
    /\ ops[o].kind = "observer"
    /\ ops[o].i = 2
    /\ ops[o].pc = "thinking"
    /\ ops[o].message # <<>>

\* The history an observer dialogue keeps for persona p (locals historyA, historyB)
LocalHistory(op, p) == IF p = "A" THEN op.historyA ELSE op.historyB
OtherPersona(p) == IF p = "A" THEN "B" ELSE "A"

\* C24: when a half-turn of an observer dialogue completes with reply r of
\* speaker S, the history of the other persona gains r as a user message and
\* the history of S gains the incoming message followed by r as a model message.
C24_ObserverHistories ==
  [][ \A o \in DOMAIN ops :
        ( /\ ops[o].kind = "observer"
          /\ ops'[o].pc # "done"
          /\ ops'[o].i = ops[o].i + 1 )
        => LET S == ops[o].persona
               r == ops[o].turn.value
           IN /\ LocalHistory(ops'[o], OtherPersona(S))
                   = Append(LocalHistory(ops[o], OtherPersona(S)), UserMessage(r.reply))
              /\ LocalHistory(ops'[o], S)
                   = LocalHistory(ops[o], S)
                       \o <<UserMessage(ops[o].message), ModelMessage(r)>>
    ]_vars

ObserverInFlight(o) == o \in DOMAIN ops /\ ops[o].kind = "observer" /\ InFlight(o)
HalfTurnsOf(op, p) == IF p = "A" THEN (op.i + 2) \div 2 ELSE (op.i + 1) \div 2

\* C25: an observer dialogue starts at most MAX_TURNS half-turns, at most half
\* of them for each persona; the step that ends it resets isConversing and
\* clears the conversation controller; and when requests settle every
\* dialogue in flight ends.
C25_ObserverEnds ==
  /\ [](\A o \in DOMAIN ops : ObserverInFlight(o) =>
          /\ ops[o].i + 1 <= MAX_TURNS
          /\ \A p \in Personas : HalfTurnsOf(ops[o], p) <= MAX_TURNS \div 2)
  /\ [][ \A o \in DOMAIN ops : (ObserverInFlight(o) /\ ops'[o].pc = "done") =>
            (~isConversing' /\ conversationController' = 0) ]_vars
  /\ \A o \in 1..MaxConversations :
        ObserverInFlight(o) ~> (o \in DOMAIN ops /\ ops[o].pc = "done" /\ ~isConversing)

\* C25 witness: the tenth half-turn of an observer dialogue has resolved.
C25_Witness ==
  \E o \in DOMAIN ops :
    /\ ops[o].kind = "observer"
    /\ ops[o].i + 1 = MAX_TURNS
    /\ ops[o].pc = "settled"
    /\ ops[o].turn.kind = "resolved"

IsPrefix(a, b) == Len(a) <= Len(b) /\ SubSeq(b, 1, Len(a)) = a

\* C26: every step leaves each persona's chat history with its former value as
\* a prefix.
C26_AppendOnly ==
  [][ \A p \in Personas : IsPrefix(history[p], history'[p]) ]_vars

\* ------------------------------------------------- claims: handleApiError
Present(v) == v.type # "absent"
TextOf(v) == IF v.type = "string" THEN <<v.s>> ELSE Stringify(v)
IsSuffix(a, b) == Len(a) <= Len(b) /\ SubSeq(b, Len(b) - Len(a) + 1, Len(b)) = a
TopMessage == Field(response.body.value, "message")
NestedMessage == Field(Field(response.body.value, "error"), "message")
ParsedJson == IsJsonType(response.contentType) /\ response.body.kind = "json"
ParseFailed ==
  \/ response.body.kind = "unreadable"
  \/ IsJsonType(response.contentType) /\ response.body.kind # "json"

NamesOf(seq) == {seq[k].fileName : k \in DOMAIN seq}

\* The onProcessingComplete calls that startProcessing made in the step
NewCompletions ==
  IF runs' # runs THEN completions'
  ELSE SubSeq(completions', Len(completions) + 1, Len(completions'))

\* The positions of the list that the step wrote or added
Touched ==
  {k \in DOMAIN fileResults' : k \notin DOMAIN fileResults \/ fileResults'[k] # fileResults[k]}

\* C27: the results list holds at most one record per fileName; a completion
\* for a fileName already listed replaces that record at its position and
\* leaves every other record as it was, and a completion for a new fileName
\* adds one record at the end.
C27_OneRecordPerFile ==
  /\ [](\A a, b \in DOMAIN fileResults :
          fileResults[a].fileName = fileResults[b].fileName => a = b)
  /\ [][/\ \A k \in DOMAIN fileResults :
            /\ k \in DOMAIN fileResults'
            /\ fileResults'[k].fileName = fileResults[k].fileName
        /\ \A k \in DOMAIN fileResults' \ DOMAIN fileResults :
            fileResults'[k].fileName \notin NamesOf(fileResults)
        /\ IF completions' # completions \/ runs' # runs
           THEN /\ \A k \in Touched : fileResults'[k].fileName \in NamesOf(NewCompletions)
                /\ NamesOf(NewCompletions) \subseteq NamesOf(fileResults')
           ELSE Cardinality(Touched) <= 1]_vars

\* The second run has completed the file of the first record while the list
\* holds other records: that record was replaced where it stood
C27_Witness ==
  /\ runs = 2
  /\ Len(fileResults) >= 2
  /\ fileResults[1].fileName \in NamesOf(completions)
  /\ fileResults[1].status = "success"
  /\ \A a, b \in DOMAIN fileResults :
       fileResults[a].fileName = fileResults[b].fileName => a = b

CompletionsAt(k) == {c \in DOMAIN completions : completions[c].index = k}

\* The positions of the queue whose tasks have been started
Launched == IF run.active THEN 1..Min(run.i + run.limit, Len(run.files)) ELSE {}

\* C28: every queued file of startProcessing produces exactly one result
\* record, success or error, and a file that fails (no code, code not found,
\* empty content, failed analysis) does not keep another file from being
\* processed: when the run ends, each file of the queue has its one record.
C28_OneResultPerFile ==
  /\ [](/\ \A c \in DOMAIN completions : completions[c].status \in {"success", "error"}
        /\ \A c, d \in DOMAIN completions :
             completions[c].index = completions[d].index => c = d
        /\ \A k \in Launched :
             IF k \in run.pending THEN CompletionsAt(k) = {}
             ELSE \E c \in CompletionsAt(k) :
                    completions[c].fileName = run.files[k].name)
  /\ [][(run.active /\ ~run'.active) =>
          \A k \in DOMAIN run.files :
            /\ Cardinality(CompletionsAt(k)) = 1
            /\ \E r \in DOMAIN fileResults' :
                 /\ fileResults'[r].fileName = run.files[k].name
                 /\ fileResults'[r].status \in {"success", "error"}]_vars

\* A run has ended in which the first file failed and the second succeeded
C28_Witness ==
  /\ ~run.active
  /\ runs >= 1
  /\ Len(completions) = 2
  /\ \E c, d \in DOMAIN completions :
       /\ completions[c].index = 1 /\ completions[c].status = "error"
       /\ completions[d].index = 2 /\ completions[d].status = "success"

\* The configuration errors of handleStartAnalysis (305, 311)
ConfigError ==
  \/ Trim(title) = <<>>
  \/ Trim(textContent) = <<>>
  \/ selectedKeywords = {}
  \/ apiKey = ""

\* The files whose code is missing, or is not in the index
Unindexed == {f \in FilePool : FileCheck(f) \in {"no code", "not found"}}

ValueOf(round, item) ==
  reqs[CHOOSE r \in DOMAIN reqs : reqs[r].round = round /\ reqs[r].item = item].value

\* The secondary concepts of the first n primary concepts of a keyword, in the
\* Round-1 order of those primary concepts
RECURSIVE SecondaryByPrimary(_, _, _)
SecondaryByPrimary(kw, primary, n) ==
  IF n = 0 THEN <<>>
  ELSE SecondaryByPrimary(kw, primary, n - 1)
         \o ValueOf("round2", [concept |-> primary[n], keyword |-> kw]).data

\* C31: the value returned by performComprehensiveAnalysis is determined by
\* what each request received, whatever the order in which the requests of a
\* chunk completed: the keys are the keywords, a primary list is what the
\* keyword's Round-1 request received, and a secondary list follows the
\* Round-1 order of the keyword's primary concepts.
C31_CompletionOrderFree ==
  ret.kind = "resolved" =>
    /\ DOMAIN ret.value.results = {keywords[k] : k \in 1..Len(keywords)}
    /\ \A kw \in DOMAIN ret.value.results :
         LET entry == ret.value.results[kw]
             primary == ValueOf("round1", kw).data
         IN /\ entry.primary = primary
            /\ primary # <<>> =>
                 entry.secondary = SecondaryByPrimary(kw, primary, Len(primary))

\* The two Round-2 requests of one keyword were in one chunk and completed
\* against their order, each with a secondary concept
C31_Witness ==
  /\ ret.kind = "resolved"
  /\ caller = "round2"
  /\ Len(chunkDone) = 2
  /\ chunkDone[1] > chunkDone[2]
  /\ reqs[ReqAt(chunkDone[1])].item.keyword = reqs[ReqAt(chunkDone[2])].item.keyword
  /\ reqs[ReqAt(chunkDone[1])].value.data # <<>>
  /\ reqs[ReqAt(chunkDone[2])].value.data # <<>>

\* ------------------------------------- claims: multi-manuscript processing
\* The requests in flight of the first n analysis calls of the invocation
RECURSIVE InFlightTotal(_)
InFlightTotal(n) ==
  IF n = 0 THEN 0 ELSE InFlightTotal(n - 1) + Cardinality(analysisCalls[n].inflight)

\* C32: while startProcessing runs with concurrency limit L, the requests in
\* flight, summed over the files being processed, are never more than L.
C32_TotalInFlight ==
  run.active => InFlightTotal(Len(analysisCalls)) <= concurrencyLimit

\* ------------------------------------ claims: a body without concepts
\* The requests that received a 2xx JSON body without the concepts field
WithoutConcepts ==
  {r \in DOMAIN reqs : reqs[r].body.received /\ "concepts" \notin DOMAIN reqs[r].body.json}

\* C33: a 2xx JSON body without the concepts field counts as an empty list of
\* concepts and not as a failure: the call of the processor resolves, in domain
\* analysis the domain key is present with an empty list, in Round 1 the
\* keyword gets an empty primary list, and a pipeline is rejected only with
\* the error of a request that failed.
C33_MissingConceptsIsEmpty ==
  /\ \A r \in WithoutConcepts :
       /\ reqs[r].status = "resolved"
       /\ reqs[r].round = "domains" => reqs[r].value.concepts = <<>>
       /\ reqs[r].round \in {"round1", "round2"} => reqs[r].value.data = <<>>
       /\ ret.kind = "resolved" =>
            /\ reqs[r].round = "domains" =>
                 /\ reqs[r].item.key \in DOMAIN ret.value.analysis
                 /\ ret.value.analysis[reqs[r].item.key] = <<>>
            /\ reqs[r].round = "round1" =>
                 /\ reqs[r].item \in DOMAIN ret.value.results
                 /\ ret.value.results[reqs[r].item].primary = <<>>
  /\ ret.kind = "rejected" =>
       \E r \in DOMAIN reqs :
         /\ reqs[r].status = "rejected"
         /\ ~reqs[r].body.received
         /\ ret.error = reqs[r].value

\* A domain analysis has resolved in which one domain received a body without
\* concepts and another a body with concepts
C33_Witness ==
  /\ ret.kind = "resolved"
  /\ \E r \in WithoutConcepts : reqs[r].round = "domains"
  /\ \E r \in DOMAIN reqs : reqs[r].round = "domains" /\ reqs[r].value.concepts # <<>>

\* ------------------------------------------------- claims: chat histories
\* The chat turns that return in the step
ChatReturns == {o \in DOMAIN ops : ops[o].kind = "chat" /\ ops[o].pc = "settled"
                                    /\ ops'[o].pc = "done"}

\* C34: in chat mode a turn changes the history of the persona it was sent to
\* and no other: the message is appended to it when the turn is sent, and the
\* reply is appended to it when the turn returns, whichever tab is open then.
C34_IndependentHistories ==
  [][/\ \A p \in Personas :
          (mode' = mode /\ history'[p] # history[p]) =>
            IF Len(ops') > Len(ops)
            THEN /\ ops'[Len(ops')].kind = "chat"
                 /\ ops'[Len(ops')].persona = p
                 /\ history'[p] = Append(history[p], UserMessage(ops'[Len(ops')].message))
            ELSE \E o \in ChatReturns :
                   /\ ops[o].persona = p
                   /\ ops[o].turn.kind = "resolved"
                   /\ history'[p] = Append(history[p], ModelMessage(ops[o].turn.value))
     /\ \A o \in ChatReturns :
          (ops[o].turn.kind = "resolved" /\ ~ctls[ops[o].ctl] /\ ops[o].mounted) =>
            history'[ops[o].persona] =
              Append(history[ops[o].persona], ModelMessage(ops[o].turn.value))]_vars

\* A turn sent to one persona has returned with its reply while the tab of the
\* other persona was open
C34_Witness ==
  /\ mode = "chat"
  /\ \E o \in DOMAIN ops :
       /\ ops[o].kind = "chat"
       /\ ops[o].pc = "done"
       /\ ops[o].turn.kind = "resolved"
       /\ ops[o].mounted
       /\ activeChat # ops[o].persona
       /\ Len(history[ops[o].persona]) = 2
       /\ history[ops[o].persona][2].role = "model"
       /\ history[activeChat] = <<>>

\* --------------------------------------- claims: processInBatches, ending
\* C35: when every processor call settles, processInBatches settles, resolved
\* or rejected, and it has started at most one processor call for each item.
C35_Settles ==
  /\ [](/\ Len(reqs) <= Len(items)
        /\ \A r, q \in DOMAIN reqs : reqs[r].index = reqs[q].index => r = q
        /\ \A r \in DOMAIN reqs : reqs[r].index \in 0..(Len(items) - 1))
  /\ <>(promise.kind # "pending")

\* A list of several chunks has been processed to the end, one call per item
C35_Witness ==
  /\ promise.kind = "resolved"
  /\ Len(items) > 2 * batchSize
  /\ Len(reqs) = Len(items)
  /\ Len(promise.value) = Len(items)

\* ---------------------------------------- claims: the shape of a history
Alternates(h) ==
  \A k \in DOMAIN h : h[k].role = IF k % 2 = 1 THEN "user" ELSE "model"

\* C36: in chat mode and in observer mode the history of each persona
\* alternates user and model messages, starting with a user message.
C36_HistoriesAlternate ==
  /\ \A p \in Personas : Alternates(history[p])
  /\ \A o \in DOMAIN ops :
       ops[o].kind = "observer" =>
         (Alternates(ops[o].historyA) /\ Alternates(ops[o].historyB))

\* ------------------------------------- claims: the request of a chat turn
\* The plain conversation messages of a request: those between the system
\* message and the two context messages
ConversationPart(msgs) == SubSeq(msgs, 2, Len(msgs) - 2)

\* C37: in the reply request of a chat turn the conversation messages are the
\* window of the history as it was before the message was sent, followed by the
\* new user message once; the history handed to chatWithPersona is that prior
\* history, without the new message.
C37_MessageOnce ==
  \A k \in DOMAIN fetches :
    LET op == ops[fetches[k].op]
    IN (fetches[k].stage = "reply" /\ op.kind = "chat" /\ op.pc # "done") =>
         /\ op.historyArg = op.before
         /\ ConversationPart(fetches[k].messages)
              = ApiMessages(effectiveHistory(op.before))
                  \o <<[role |-> "user", content |-> op.message]>>

\* ------------------------------- claims: who owns conversationController
\* The conversation handlers that have not returned
Conversing == {o \in DOMAIN ops : ops[o].kind \in {"chat", "observer"} /\ InFlight(o)}

====
